---- MODULE Spec2Model ----
(***************************************************************************)
(* Projeto Jocasta: the order-line tools PXListLite, PXTotaList,           *)
(* PXListPlus, PXList and PXSort(Lite), modelled on real strings.          *)
(* One tool runs per behaviour (app); its handlers are the actions.        *)
(***************************************************************************)
EXTENDS Integers, Sequences, FiniteSets, TLC

VARIABLES
    app,            \* which program is running
    txt_in,         \* content of the input text widget (lines joined by "\n")
    result,         \* locals of the last batch run (process_text / convert_text_to_json)
    required_count, \* PXListPlusFrame.required_count (NoneVal = None)
    input_dirty,    \* PXListPlusFrame.input_dirty
    selected_keys,  \* OrderedCheckboxes._selected_keys
    limit,          \* OrderedCheckboxes._limit (NoneVal = None)
    report,         \* what the last handler put in the error pane (NoErrors: nothing)
    ck_vars,        \* OrderedCheckboxes._vars: the keys whose box is ticked
    popup,          \* message box shown by the last handler ("" = none)
    out_file,       \* orders the last handler handed to write_json (<<>>: it wrote no file)
    json_in         \* the JSON document given to Jarvis, as json.load returns it

vars == <<app, txt_in, result, required_count, input_dirty, selected_keys,
          limit, report, ck_vars, popup, out_file, json_in>>

(***************************************************************************)
(* Bounds of the model.                                                    *)
(***************************************************************************)
MaxTokens == 3
MaxLines == 3
MaxGarment == 2

(***************************************************************************)
(* Python string primitives, on TLA+ strings.                              *)
(***************************************************************************)
\* the element of a one-element set: Only({e(x) : x \in {v}}) is e with x naming the value v
Only(S) == CHOOSE x \in S : TRUE

Ch(s, i) == SubSeq(s, i, i)

Whitespace == {" ", "\t", "\n"}

Digits == {"0", "1", "2", "3", "4", "5", "6", "7", "8", "9"}

LowerLetters == "abcdefghijklmnopqrstuvwxyz"

UpperLetters == "ABCDEFGHIJKLMNOPQRSTUVWXYZ"

\* code-point order of the characters the model uses
Alphabet == "\t\n \"',-0123456789ABCDEFGHIJKLMNOPQRSTUVWXYZabcdefghijklmnopqrstuvwxyz"

SetMin(S) == CHOOSE x \in S : \A y \in S : x <= y

SetMax(S) == CHOOSE x \in S : \A y \in S : y <= x

\* str.strip()
Strip(s) ==
    LET idx == {i \in 1..Len(s) : Ch(s, i) \notin Whitespace}
    IN IF idx = {} THEN "" ELSE SubSeq(s, SetMin(idx), SetMax(idx))

\* str.strip("\n")
StripNL(s) ==
    LET idx == {i \in 1..Len(s) : Ch(s, i) # "\n"}
    IN IF idx = {} THEN "" ELSE SubSeq(s, SetMin(idx), SetMax(idx))

UpperChar(c) ==
    LET idx == {i \in 1..26 : Ch(LowerLetters, i) = c}
    IN IF idx = {} THEN c ELSE Ch(UpperLetters, SetMin(idx))

\* str.upper()
RECURSIVE Upper(_)
Upper(s) ==
    IF s = "" THEN ""
    ELSE Only({UpperChar(Ch(s, 1)) \o Upper(rest) : rest \in {SubSeq(s, 2, Len(s))}})

IsLetter(c) == \E i \in 1..26 : c = Ch(LowerLetters, i) \/ c = Ch(UpperLetters, i)

\* str.isdigit()
IsDigitStr(s) == s # "" /\ \A i \in 1..Len(s) : Ch(s, i) \in Digits

\* any(ch.isdigit() for ch in s)
HasDigit(s) == \E i \in 1..Len(s) : Ch(s, i) \in Digits

HasChar(s, c) == \E i \in 1..Len(s) : Ch(s, i) = c

\* str.split(sep) for a one-character separator
RECURSIVE Split(_, _)
Split(s, sep) ==
    LET idx == {i \in 1..Len(s) : Ch(s, i) = sep}
    IN IF idx = {} THEN <<s>>
       ELSE Only({<<SubSeq(s, 1, i - 1)>>
                    \o Only({Split(rest, sep) : rest \in {SubSeq(s, i + 1, Len(s))}})
                  : i \in {SetMin(idx)}})

\* str.splitlines(): no piece for the end of the text after a final line break
SplitLines(s) ==
    IF s = "" THEN <<>>
    ELSE Only({IF ps[Len(ps)] = "" THEN SubSeq(ps, 1, Len(ps) - 1) ELSE ps
               : ps \in {Split(s, "\n")}})

\* sep.join(seq)
RECURSIVE Join(_, _)
Join(seq, sep) ==
    IF seq = <<>> THEN ""
    ELSE IF Len(seq) = 1 THEN seq[1]
    ELSE Only({seq[1] \o sep \o Join(rest, sep) : rest \in {Tail(seq)}})

DigitVal(c) == CHOOSE d \in 0..9 : Ch("0123456789", d + 1) = c

\* int(s) for a string of digits
RECURSIVE ParseInt(_)
ParseInt(s) ==
    IF s = "" THEN 0
    ELSE Only({10 * ParseInt(init) + DigitVal(Ch(s, Len(s)))
               : init \in {SubSeq(s, 1, Len(s) - 1)}})

\* str(n) for n >= 0
RECURSIVE IntToStr(_)
IntToStr(n) ==
    IF n < 10 THEN Ch("0123456789", n + 1)
    ELSE Only({IntToStr(q) \o Ch("0123456789", (n % 10) + 1) : q \in {n \div 10}})

CharOrd(c) == CHOOSE i \in 1..Len(Alphabet) : Ch(Alphabet, i) = c

\* a < b for Python strings (code-point lexicographic)
RECURSIVE StrLess(_, _)
StrLess(a, b) ==
    IF b = "" THEN FALSE
    ELSE IF a = "" THEN TRUE
    ELSE IF Ch(a, 1) = Ch(b, 1)
         THEN Only({StrLess(ra, rb) : ra \in {SubSeq(a, 2, Len(a))},
                                      rb \in {SubSeq(b, 2, Len(b))}})
    ELSE CharOrd(Ch(a, 1)) < CharOrd(Ch(b, 1))

\* (a1, a2) < (b1, b2) for tuples of strings
PairLess(a1, a2, b1, b2) == StrLess(a1, b1) \/ (a1 = b1 /\ StrLess(a2, b2))

IsAlnumStr(s) == s # "" /\ \A i \in 1..Len(s) : Ch(s, i) \in Digits \/ IsLetter(Ch(s, i))

IsAlphaStr(s) == s # "" /\ \A i \in 1..Len(s) : IsLetter(Ch(s, i))

\* re.match(r"^\s*(\d+)\s*-\s*([A-Za-z0-9]+)\s*$", t): the groups, or ok = FALSE
QtyDashAlnumMatch(t) ==
    LET idx == {i \in 1..Len(t) : Ch(t, i) = "-"}
    IN IF idx = {} THEN [ok |-> FALSE, qty |-> "", size |-> ""]
       ELSE Only({IF IsDigitStr(q) /\ IsAlnumStr(c)
                  THEN [ok |-> TRUE, qty |-> q, size |-> c]
                  ELSE [ok |-> FALSE, qty |-> "", size |-> ""]
                  : q \in {Strip(SubSeq(t, 1, SetMin(idx) - 1))},
                    c \in {Strip(SubSeq(t, SetMin(idx) + 1, Len(t)))}})

(***************************************************************************)
(* PXListLite                                                              *)
(***************************************************************************)
NoRow == [name |-> "", number |-> "", tams |-> <<>>, s2 |-> "", s3 |-> ""]

Lite_VALID_SIZES ==
    {"PP", "P", "M", "G", "GG", "XG", "XGG",
     "BLPP", "BLP", "BLM", "BLG", "BLGG",
     "2A", "4A", "6A", "8A", "10A", "12A", "14A", "16A"}

Lite_MaxTams == 4

Lite_clean_token(s) == Strip(s)

Lite_upper(s) == Upper(Lite_clean_token(s))

Lite_is_number(tok) == IsDigitStr(Lite_clean_token(tok))

Lite_is_size(tok) ==
    \E t \in {Lite_upper(tok)} :
        IF t = "" THEN FALSE
        ELSE IF t \in Lite_VALID_SIZES THEN TRUE
        ELSE \E m \in {QtyDashAlnumMatch(t)} :
                 m.ok /\ Lite_upper(m.size) \in Lite_VALID_SIZES

\* a faulty parse_line: every Number-shaped token overwrites the number
Lite_classify_last_number(st, tok) ==
    Only({IF t = "" THEN st
          ELSE IF Lite_is_size(up) THEN [st EXCEPT !.tams = Append(@, up)]
          ELSE IF Lite_is_number(t) THEN [st EXCEPT !.number = up]
          ELSE IF st.name = "" THEN [st EXCEPT !.name = up]
          ELSE [st EXCEPT !.extra = Append(@, up)]
          : t \in {Lite_clean_token(tok)}, up \in {Lite_upper(tok)}})

\* one iteration of the token loop of parse_line
Lite_classify(st, tok) ==
    Only({IF t = "" THEN st
          ELSE IF Lite_is_size(up) THEN [st EXCEPT !.tams = Append(@, up)]
          ELSE IF Lite_is_number(t) /\ st.number = "" THEN [st EXCEPT !.number = up]
          ELSE IF st.name = "" THEN [st EXCEPT !.name = up]
          ELSE [st EXCEPT !.extra = Append(@, up)]
          : t \in {Lite_clean_token(tok)}, up \in {Lite_upper(tok)}})

RECURSIVE Lite_scan(_, _)
Lite_scan(st, parts) ==
    IF parts = <<>> THEN st
    ELSE Only({Lite_scan(nxt, rest) : nxt \in {Lite_classify(st, Head(parts))},
                                     rest \in {Tail(parts)}})

ScanInit == [name |-> "", number |-> "", tams |-> <<>>, extra |-> <<>>]

RowOf(st) ==
    [name |-> st.name, number |-> st.number, tams |-> st.tams,
     s2 |-> IF Len(st.extra) >= 1 THEN st.extra[1] ELSE "",
     s3 |-> IF Len(st.extra) >= 2 THEN st.extra[2] ELSE ""]

Lite_parts(raw) ==
    Only({[i \in 1..Len(ps) |-> Lite_clean_token(ps[i])] : ps \in {Split(raw, ",")}})

\* a faulty parse_line: a line without a size is accepted
Lite_parse_line_no_size_check(line) ==
    IF Strip(line) = "" THEN [status |-> "none", row |-> NoRow, reason |-> ""]
    ELSE Only({IF Len(st.tams) > Lite_MaxTams
               THEN [status |-> "error", row |-> NoRow, reason |-> "too_many_sizes"]
               ELSE [status |-> "ok", row |-> RowOf(st), reason |-> ""]
               : st \in {Lite_scan(ScanInit, Lite_parts(Strip(line)))}})

\* parse_line: status "none" (blank line), "ok" (row) or "error" (ValueError)
Lite_parse_line(line) ==
    IF Strip(line) = "" THEN [status |-> "none", row |-> NoRow, reason |-> ""]
    ELSE Only({IF st.tams = <<>>
               THEN [status |-> "error", row |-> NoRow, reason |-> "no_size"]
               ELSE IF Len(st.tams) > Lite_MaxTams
               THEN [status |-> "error", row |-> NoRow, reason |-> "too_many_sizes"]
               ELSE [status |-> "ok", row |-> RowOf(st), reason |-> ""]
               : st \in {Lite_scan(ScanInit, Lite_parts(Strip(line)))}})

MaxOf(S) == IF S = {} THEN 0 ELSE SetMax(S)

Blanks(n) == [i \in 1..n |-> ""]

\* a faulty build_output: the rows are not padded to the largest number of sizes
OutputCols_unpadded(r, max_tams, has_s2, has_s3) ==
    <<r.name, r.number>> \o r.tams
        \o (IF has_s2 THEN <<r.s2>> ELSE <<>>)
        \o (IF has_s3 THEN <<r.s3>> ELSE <<>>)

\* one output line of build_output
OutputCols(r, max_tams, has_s2, has_s3) ==
    <<r.name, r.number>> \o r.tams \o Blanks(max_tams - Len(r.tams))
        \o (IF has_s2 THEN <<r.s2>> ELSE <<>>)
        \o (IF has_s3 THEN <<r.s3>> ELSE <<>>)

\* a faulty build_output: the STRING3 column is never written
Lite_build_output_no_s3(rows) ==
    LET max_tams == MaxOf({Len(rows[i].tams) : i \in 1..Len(rows)})
        has_s2 == \E i \in 1..Len(rows) : rows[i].s2 # ""
    IN IF rows = <<>> THEN ""
       ELSE Join([i \in 1..Len(rows) |->
                    Join(OutputCols(rows[i], max_tams, has_s2, FALSE), ",")], "\n")

Lite_build_output(rows) ==
    LET max_tams == MaxOf({Len(rows[i].tams) : i \in 1..Len(rows)})
        has_s2 == \E i \in 1..Len(rows) : rows[i].s2 # ""
        has_s3 == \E i \in 1..Len(rows) : rows[i].s3 # ""
    IN IF rows = <<>> THEN ""
       ELSE Join([i \in 1..Len(rows) |->
                    Join(OutputCols(rows[i], max_tams, has_s2, has_s3), ",")], "\n")

\* list.sort(key=lambda r: (r.name, r.number)): stable insertion
RECURSIVE InsertRow(_, _)
InsertRow(sorted, r) ==
    IF sorted = <<>> THEN <<r>>
    ELSE Only({IF PairLess(r.name, r.number, last.name, last.number)
               THEN Append(InsertRow(init, r), last)
               ELSE Append(sorted, r)
               : last \in {sorted[Len(sorted)]}, init \in {SubSeq(sorted, 1, Len(sorted) - 1)}})

RECURSIVE SortRows(_)
SortRows(rows) ==
    IF rows = <<>> THEN <<>>
    ELSE Only({InsertRow(init, rows[Len(rows)])
               : init \in {SortRows(SubSeq(rows, 1, Len(rows) - 1))}})

NoResult == [status |-> "none", parsed |-> <<>>, out |-> "", err_line |-> 0,
             err_reason |-> "", skipped |-> 0, buckets |-> <<>>, ignored |-> <<>>,
             lines |-> <<>>, eff |-> <<>>]

\* the loop of process_text from line i on: stops at the first ValueError
RECURSIVE Lite_process_lines(_, _, _)
Lite_process_lines(lines, i, parsed) ==
    IF i > Len(lines) THEN [NoResult EXCEPT !.status = "ok", !.parsed = parsed]
    ELSE IF Strip(lines[i]) = "" THEN Lite_process_lines(lines, i + 1, parsed)
    ELSE Only({IF p.status = "error"
               THEN [NoResult EXCEPT !.status = "error", !.err_line = i,
                                     !.err_reason = p.reason]
               ELSE Only({Lite_process_lines(lines, i + 1, acc)
                          : acc \in {IF p.status = "ok" THEN Append(parsed, p.row)
                                     ELSE parsed}})
               : p \in {Lite_parse_line(lines[i])}})

Lite_process_text(text) ==
    Only({IF r.status = "error" THEN r
          ELSE Only({[r EXCEPT !.parsed = sorted, !.out = Lite_build_output(sorted)]
                     : sorted \in {SortRows(r.parsed)}})
          : r \in {Only({Lite_process_lines(lines, 1, <<>>)
                         : lines \in {SplitLines(text)}})}})


(***************************************************************************)
(* PXTotaList                                                              *)
(***************************************************************************)
Tota_ADULT_SIZES == {"PP", "P", "M", "G", "GG", "XGG", "XXGG"}

\* CHILD_SIZE_RE = ^(?:[2-9]|1[0-2])A$, IGNORECASE
ChildReMatch(s) ==
    Upper(s) \in {"2A", "3A", "4A", "5A", "6A", "7A", "8A", "9A", "10A", "11A", "12A"}

Tota_MaxTams == 6

Tota_clean_token(s) == Strip(s)

Tota_upper(s) == Upper(Tota_clean_token(s))

Tota_FORBIDDEN_EMPTY == {"\"\"", "''"}

\* a faulty _is_forbidden: one layer of matching quotes is taken off before the test
Tota_is_forbidden_after_unwrap(tok) ==
    \E t \in {Tota_clean_token(tok)} :
        IF t = "" THEN FALSE
        ELSE IF t \in Tota_FORBIDDEN_EMPTY THEN TRUE
        ELSE \E u \in {IF Len(t) >= 2 /\ Ch(t, 1) = Ch(t, Len(t))
                        THEN SubSeq(t, 2, Len(t) - 1) ELSE t} :
                 HasChar(u, "\"") \/ HasChar(u, "'")

Tota_is_forbidden(tok) ==
    \E t \in {Tota_clean_token(tok)} :
        IF t = "" THEN FALSE
        ELSE IF t \in Tota_FORBIDDEN_EMPTY THEN TRUE
        ELSE HasChar(t, "\"") \/ HasChar(t, "'")

Tota_is_child_size(size) == ChildReMatch(size)

Tota_is_adult_size(size) == size \in Tota_ADULT_SIZES

\* a faulty _is_babylook_size: every code that starts with BL is a babylook size
Tota_is_babylook_size_any_suffix(size) ==
    \E s \in {Upper(size)} : Len(s) >= 2 /\ SubSeq(s, 1, 2) = "BL"

Tota_is_babylook_size(size) ==
    \E s \in {Upper(size)} :
        IF Len(s) < 2 \/ SubSeq(s, 1, 2) # "BL" THEN FALSE
        ELSE SubSeq(s, 3, Len(s)) \in Tota_ADULT_SIZES

Tota_valid_code(size) ==
    Tota_is_adult_size(size) \/ Tota_is_child_size(size) \/ Tota_is_babylook_size(size)

Tota_is_size_token(tok) ==
    \E t \in {Tota_upper(tok)}, m \in {QtyDashAlnumMatch(Tota_upper(tok))} :
        IF t = "" THEN FALSE
        ELSE IF Tota_valid_code(t) THEN TRUE
        ELSE IF ~m.ok THEN FALSE
        ELSE Tota_valid_code(Tota_upper(m.size))

\* a faulty _normalize_size_token: the quantity is kept as it was typed
Tota_normalize_size_token_qty_as_typed(tok) ==
    Only({IF t = "" THEN [err |-> "empty_size", val |-> ""]
          ELSE IF m.ok
               THEN IF ParseInt(m.qty) <= 0 THEN [err |-> "bad_qty", val |-> ""]
                    ELSE IF ~Tota_valid_code(Tota_upper(m.size))
                         THEN [err |-> "invalid_size", val |-> ""]
                    ELSE [err |-> "", val |-> m.qty \o "-" \o Tota_upper(m.size)]
          ELSE IF ~Tota_valid_code(t) THEN [err |-> "invalid_size", val |-> ""]
          ELSE [err |-> "", val |-> "1-" \o t]
          : t \in {Tota_upper(tok)}, m \in {QtyDashAlnumMatch(Tota_upper(tok))}})

\* _normalize_size_token: the canonical "QTY-SIZE", or err # "" for a ValueError
Tota_normalize_size_token(tok) ==
    Only({IF t = "" THEN [err |-> "empty_size", val |-> ""]
          ELSE IF m.ok
               THEN IF ParseInt(m.qty) <= 0 THEN [err |-> "bad_qty", val |-> ""]
                    ELSE IF ~Tota_valid_code(Tota_upper(m.size))
                         THEN [err |-> "invalid_size", val |-> ""]
                    ELSE [err |-> "",
                          val |-> IntToStr(ParseInt(m.qty)) \o "-" \o Tota_upper(m.size)]
          ELSE IF ~Tota_valid_code(t) THEN [err |-> "invalid_size", val |-> ""]
          ELSE [err |-> "", val |-> "1-" \o t]
          : t \in {Tota_upper(tok)}, m \in {QtyDashAlnumMatch(Tota_upper(tok))}})

Tota_is_number(tok) ==
    \E t \in {Tota_clean_token(tok)} : t # "" /\ HasDigit(t)

TotaScanInit == [name |-> "", number |-> "", tams |-> <<>>, extra |-> <<>>, err |-> ""]

\* a faulty parse_line: a token is tested as a number before it is tested as a size
Tota_classify_number_first(st, tok) ==
    Only({IF Tota_is_forbidden(tok) THEN [st EXCEPT !.err = "forbidden"]
          ELSE IF t = "" THEN st
          ELSE IF Tota_is_number(t) /\ st.number = "" THEN [st EXCEPT !.number = up]
          ELSE IF Tota_is_size_token(up)
               THEN Only({IF n.err # "" THEN [st EXCEPT !.err = n.err]
                          ELSE [st EXCEPT !.tams = Append(@, n.val)]
                          : n \in {Tota_normalize_size_token(up)}})
          ELSE IF st.name = "" THEN [st EXCEPT !.name = up]
          ELSE [st EXCEPT !.extra = Append(@, up)]
          : t \in {Tota_clean_token(tok)}, up \in {Tota_upper(tok)}})

\* one iteration of the token loop of parse_line; err is the ValueError raised
Tota_classify(st, tok) ==
    Only({IF Tota_is_forbidden(tok) THEN [st EXCEPT !.err = "forbidden"]
          ELSE IF t = "" THEN st
          ELSE IF Tota_is_size_token(up)
               THEN Only({IF n.err # "" THEN [st EXCEPT !.err = n.err]
                          ELSE [st EXCEPT !.tams = Append(@, n.val)]
                          : n \in {Tota_normalize_size_token(up)}})
          ELSE IF Tota_is_number(t) /\ st.number = "" THEN [st EXCEPT !.number = up]
          ELSE IF st.name = "" THEN [st EXCEPT !.name = up]
          ELSE [st EXCEPT !.extra = Append(@, up)]
          : t \in {Tota_clean_token(tok)}, up \in {Tota_upper(tok)}})

RECURSIVE Tota_scan(_, _)
Tota_scan(st, parts) ==
    IF parts = <<>> \/ st.err # "" THEN st
    ELSE Only({Tota_scan(nxt, rest) : nxt \in {Tota_classify(st, Head(parts))},
                                     rest \in {Tail(parts)}})

Tota_parts(raw) ==
    Only({[i \in 1..Len(ps) |-> Tota_clean_token(ps[i])] : ps \in {Split(raw, ",")}})

\* a faulty parse_line: the number of sizes of a line is not limited
Tota_parse_line_no_limit(line) ==
    IF Strip(line) = "" THEN [status |-> "none", row |-> NoRow, reason |-> ""]
    ELSE Only({IF st.err # "" THEN [status |-> "error", row |-> NoRow, reason |-> st.err]
               ELSE IF st.tams = <<>>
               THEN [status |-> "error", row |-> NoRow, reason |-> "no_size"]
               ELSE [status |-> "ok", row |-> RowOf(st), reason |-> ""]
               : st \in {Tota_scan(TotaScanInit, Tota_parts(Strip(line)))}})

Tota_parse_line(line) ==
    IF Strip(line) = "" THEN [status |-> "none", row |-> NoRow, reason |-> ""]
    ELSE Only({IF st.err # "" THEN [status |-> "error", row |-> NoRow, reason |-> st.err]
               ELSE IF st.tams = <<>>
               THEN [status |-> "error", row |-> NoRow, reason |-> "no_size"]
               ELSE IF Len(st.tams) > Tota_MaxTams
               THEN [status |-> "error", row |-> NoRow, reason |-> "too_many_sizes"]
               ELSE [status |-> "ok", row |-> RowOf(st), reason |-> ""]
               : st \in {Tota_scan(TotaScanInit, Tota_parts(Strip(line)))}})

Tota_build_output(rows) ==
    LET max_tams == MaxOf({Len(rows[i].tams) : i \in 1..Len(rows)})
        has_s2 == \E i \in 1..Len(rows) : rows[i].s2 # ""
        has_s3 == \E i \in 1..Len(rows) : rows[i].s3 # ""
    IN IF rows = <<>> THEN ""
       ELSE Join([i \in 1..Len(rows) |->
                    Join(OutputCols(rows[i], max_tams, has_s2, has_s3), ",")], "\n")

\* the loop of process_text from line i on: stops at the first ValueError
RECURSIVE Tota_process_lines(_, _, _)
Tota_process_lines(lines, i, parsed) ==
    IF i > Len(lines) THEN [NoResult EXCEPT !.status = "ok", !.parsed = parsed]
    ELSE IF Strip(lines[i]) = "" THEN Tota_process_lines(lines, i + 1, parsed)
    ELSE Only({IF p.status = "error"
               THEN [NoResult EXCEPT !.status = "error", !.err_line = i,
                                     !.err_reason = p.reason]
               ELSE Only({Tota_process_lines(lines, i + 1, acc)
                          : acc \in {IF p.status = "ok" THEN Append(parsed, p.row)
                                     ELSE parsed}})
               : p \in {Tota_parse_line(lines[i])}})

Tota_process_text(text) ==
    Only({IF r.status = "error" THEN r
          ELSE Only({[r EXCEPT !.parsed = sorted, !.out = Tota_build_output(sorted)]
                     : sorted \in {SortRows(r.parsed)}})
          : r \in {Only({Tota_process_lines(lines, 1, <<>>)
                         : lines \in {SplitLines(text)}})}})


(***************************************************************************)
(* PXListPlus: pure functions                                              *)
(***************************************************************************)
Plus_ADULT_SIZES == {"PP", "P", "M", "G", "GG", "XGG", "XXGG"}

Plus_MaxSizes == 6

GARMENTS == <<"ShortSleeve", "LongSleeve", "Short", "Pants", "Tanktop", "Vest">>

\* re.sub(r"\s+", " ", s.strip()) on an already stripped string
RECURSIVE CollapseSpaces(_)
CollapseSpaces(s) ==
    IF s = "" THEN ""
    ELSE Only({IF Ch(s, 1) \in Whitespace
               THEN IF Len(s) >= 2 /\ Ch(s, 2) \in Whitespace
                    THEN CollapseSpaces(rest)
                    ELSE " " \o CollapseSpaces(rest)
               ELSE Ch(s, 1) \o CollapseSpaces(rest)
               : rest \in {SubSeq(s, 2, Len(s))}})

Plus_normalize_spaces(s) == CollapseSpaces(Strip(s))

Plus_normalize_name(s) == Upper(Plus_normalize_spaces(s))

Plus_clean_token(tok) == Strip(tok)

\* forbid_quotes raises
Plus_forbid_quotes(tok) == tok # "" /\ (HasChar(tok, "\"") \/ HasChar(tok, "'"))

Plus_is_child_size(size) == ChildReMatch(size)

Plus_is_adult_size(size) == size \in Plus_ADULT_SIZES

Plus_is_babylook_size(size) ==
    \E s \in {Upper(size)} :
        IF Len(s) < 2 \/ SubSeq(s, 1, 2) # "BL" THEN FALSE
        ELSE SubSeq(s, 3, Len(s)) \in Plus_ADULT_SIZES

Plus_valid_code(size) ==
    Plus_is_adult_size(size) \/ Plus_is_child_size(size) \/ Plus_is_babylook_size(size)

Plus_is_size_token(tok) ==
    \E t \in {Upper(Plus_clean_token(tok))},
       m \in {QtyDashAlnumMatch(Upper(Plus_clean_token(tok)))} :
        IF t = "" THEN FALSE
        ELSE IF Plus_valid_code(t) THEN TRUE
        ELSE IF ~m.ok THEN FALSE
        ELSE Plus_valid_code(Upper(Strip(m.size)))

Plus_normalize_size_token(tok) ==
    Only({IF t = "" THEN [err |-> "empty_size", val |-> ""]
          ELSE IF m.ok
               THEN IF ParseInt(m.qty) <= 0 THEN [err |-> "bad_qty", val |-> ""]
                    ELSE IF ~Plus_valid_code(Upper(Strip(m.size)))
                         THEN [err |-> "invalid_size", val |-> ""]
                    ELSE [err |-> "",
                          val |-> IntToStr(ParseInt(m.qty)) \o "-" \o Upper(Strip(m.size))]
          ELSE IF ~Plus_valid_code(t) THEN [err |-> "invalid_size", val |-> ""]
          ELSE [err |-> "", val |-> "1-" \o t]
          : t \in {Upper(Plus_clean_token(tok))},
            m \in {QtyDashAlnumMatch(Upper(Plus_clean_token(tok)))}})

\* "sub" in s
HasSub(s, sub) ==
    \E i \in 1..Len(s) : i + Len(sub) - 1 <= Len(s) /\ SubSeq(s, i, i + Len(sub) - 1) = sub

\* s.split("-", 1): the part after the first dash, or s itself when there is none
AfterFirstDash(s) ==
    LET idx == {i \in 1..Len(s) : Ch(s, i) = "-"}
    IN IF idx = {} THEN s ELSE SubSeq(s, SetMin(idx) + 1, Len(s))

EndsWith(s, c) == s # "" /\ Ch(s, Len(s)) = c

\* a faulty detect_gender_from_sizes: a child size wins over a babylook size
Plus_detect_gender_child_wins(sizes_normalized) ==
    Only({IF has_child THEN "C"
          ELSE IF has_bl THEN "FE"
          ELSE "MA"
          : has_child \in {\E i \in 1..Len(sizes_normalized) :
                              \E size \in {Upper(AfterFirstDash(sizes_normalized[i]))} :
                                  EndsWith(size, "A") /\ Plus_is_child_size(size)},
            has_bl \in {\E i \in 1..Len(sizes_normalized) :
                           HasSub(Upper(AfterFirstDash(sizes_normalized[i])), "BL")}})

\* detect_gender_from_sizes: "C", "FE", "MA", or "DIVERGENCE" for the ValueError
Plus_detect_gender_from_sizes(sizes_normalized) ==
    Only({IF has_child /\ has_bl THEN "DIVERGENCE"
          ELSE IF has_child THEN "C"
          ELSE IF has_bl THEN "FE"
          ELSE "MA"
          : has_child \in {\E i \in 1..Len(sizes_normalized) :
                              \E size \in {Upper(AfterFirstDash(sizes_normalized[i]))} :
                                  EndsWith(size, "A") /\ Plus_is_child_size(size)},
            has_bl \in {\E i \in 1..Len(sizes_normalized) :
                           HasSub(Upper(AfterFirstDash(sizes_normalized[i])), "BL")}})

PlusScanInit == [name |-> "", number |-> "", sizes |-> <<>>, extras |-> <<>>, err |-> ""]

\* one iteration of the second token loop of parse_line_dynamic
Plus_classify(st, tok0) ==
    Only({IF tok = "" THEN st
          ELSE IF Plus_is_size_token(up)
               THEN Only({IF n.err # "" THEN [st EXCEPT !.err = n.err]
                          ELSE [st EXCEPT !.sizes = Append(@, n.val)]
                          : n \in {Plus_normalize_size_token(up)}})
          ELSE IF st.number = "" /\ HasDigit(tok)
               THEN [st EXCEPT !.number = Plus_normalize_spaces(tok)]
          ELSE IF st.name = "" THEN [st EXCEPT !.name = Plus_normalize_name(tok)]
          ELSE [st EXCEPT !.extras = Append(@, Upper(Plus_normalize_spaces(tok)))]
          : tok \in {Plus_clean_token(tok0)}, up \in {Upper(Plus_clean_token(tok0))}})

RECURSIVE Plus_scan(_, _)
Plus_scan(st, parts) ==
    IF parts = <<>> \/ st.err # "" THEN st
    ELSE Only({Plus_scan(nxt, rest) : nxt \in {Plus_classify(st, Head(parts))},
                                     rest \in {Tail(parts)}})

\* parse_line_dynamic: err # "" for a ValueError
Plus_parts(raw) ==
    Only({[i \in 1..Len(ps) |-> Plus_clean_token(ps[i])] : ps \in {Split(raw, ",")}})

NoParse == [err |-> "", name |-> "", number |-> "", sizes |-> <<>>, nickname |-> "",
            blood |-> ""]

Plus_parse_line_dynamic(line) ==
    IF Strip(line) = "" THEN [NoParse EXCEPT !.err = "empty_line"]
    ELSE Only({IF \E i \in 1..Len(parts) : Plus_forbid_quotes(parts[i])
               THEN [NoParse EXCEPT !.err = "forbidden"]
               ELSE Only({IF st.err # "" THEN [NoParse EXCEPT !.err = st.err]
                          ELSE [err |-> "", name |-> st.name, number |-> st.number,
                                sizes |-> st.sizes,
                                nickname |-> IF Len(st.extras) >= 1 THEN st.extras[1]
                                             ELSE "",
                                blood |-> IF Len(st.extras) >= 2 THEN st.extras[2]
                                          ELSE ""]
                          : st \in {Plus_scan(PlusScanInit, parts)}})
               : parts \in {Plus_parts(Strip(line))}})

\* [ln.strip() for ln in raw.splitlines() if ln.strip()]
RECURSIVE NonBlankStripped(_)
NonBlankStripped(ls) ==
    IF ls = <<>> THEN <<>>
    ELSE Only({IF ln = "" THEN NonBlankStripped(rest)
               ELSE <<ln>> \o NonBlankStripped(rest)
               : ln \in {Strip(Head(ls))}, rest \in {Tail(ls)}})

Plus_lines(txt) == NonBlankStripped(SplitLines(StripNL(txt)))

\* the body of verify_input's loop for one line: the parsed tuple, or err # ""
Plus_verify_line(line) ==
    Only({IF p.err # "" THEN p
          ELSE IF p.sizes = <<>> THEN [p EXCEPT !.err = "no_size"]
          ELSE IF Len(p.sizes) > Plus_MaxSizes THEN [p EXCEPT !.err = "too_many_sizes"]
          ELSE IF Plus_detect_gender_from_sizes(p.sizes) = "DIVERGENCE"
               THEN [p EXCEPT !.err = "divergence"]
          ELSE p
          : p \in {Plus_parse_line_dynamic(line)}})

RECURSIVE SelectSeq2(_, _)
SelectSeq2(seq, keep) ==
    IF seq = <<>> THEN <<>>
    ELSE Only({(IF keep[1] THEN <<Head(seq)>> ELSE <<>>) \o SelectSeq2(rs, rk)
               : rs \in {Tail(seq)}, rk \in {Tail(keep)}})

\* sorted(S) for a set of integers
RECURSIVE SortedSeq(_)
SortedSeq(S) ==
    IF S = {} THEN <<>>
    ELSE Only({<<SetMin(S)>> \o SortedSeq(rest) : rest \in {S \ {SetMin(S)}}})

NoErrors == [kind |-> "none", errors |-> <<>>, counts |-> <<>>]

\* a faulty verify_input: the first loop stops at the first line that fails
Plus_verify_lines_first_error(lines) ==
    Only({Only({[errors |-> IF bad = {} THEN <<>>
                            ELSE <<[line_no |-> SetMin(bad), raw |-> lines[SetMin(bad)],
                                    reason |-> res[SetMin(bad)].err]>>,
                 parsed |-> parsed,
                 counts |-> SortedSeq({Len(parsed[i].sizes) : i \in 1..Len(parsed)})]
                : parsed \in {SelectSeq2(res, [i \in 1..Len(lines) |-> res[i].err = ""])},
                  bad \in {{i \in 1..Len(lines) : res[i].err # ""}}})
          : res \in {<<>> \o [i \in 1..Len(lines) |-> Plus_verify_line(lines[i])]}})

\* the two loops of verify_input over the lines of the input
Plus_verify_lines(lines) ==
    Only({Only({[errors |-> SelectSeq2([i \in 1..Len(lines) |->
                                          [line_no |-> i, raw |-> lines[i],
                                           reason |-> res[i].err]],
                                      [i \in 1..Len(lines) |-> res[i].err # ""]),
                 parsed |-> parsed,
                 counts |-> SortedSeq({Len(parsed[i].sizes) : i \in 1..Len(parsed)})]
                : parsed \in {SelectSeq2(res, [i \in 1..Len(lines) |-> res[i].err = ""])}})
          : res \in {<<>> \o [i \in 1..Len(lines) |-> Plus_verify_line(lines[i])]}})


(***************************************************************************)
(* PXListPlus: the frame's handlers as functions of the state they read    *)
(***************************************************************************)
NoneVal == -1

\* a faulty verify_input: lines with different size counts pass with the smallest count
Plus_verify_outcome_first_count(txt, sel, cks, auto) ==
    LET failed == [required_count |-> NoneVal, limit |-> NoneVal, errors_text |-> NoErrors,
                   selected_keys |-> sel, ck_vars |-> cks, popup |-> ""]
    IN IF Strip(StripNL(txt)) = ""
       THEN [failed EXCEPT !.popup = IF auto THEN "" ELSE "warn_no_input"]
       ELSE Only({
           IF v.errors # <<>>
           THEN [failed EXCEPT !.errors_text = [kind |-> "lines", errors |-> v.errors,
                                                counts |-> <<>>],
                               !.popup = IF auto THEN "" ELSE "err_verify"]
           ELSE [required_count |-> v.counts[1], limit |-> v.counts[1],
                 errors_text |-> NoErrors,
                 selected_keys |-> IF Len(sel) > v.counts[1] THEN <<>> ELSE sel,
                 ck_vars |-> IF Len(sel) > v.counts[1] THEN {} ELSE cks,
                 popup |-> ""]
           : v \in {Plus_verify_lines(Plus_lines(txt))}})

\* a faulty verify_input: a selection longer than required is kept
Plus_verify_outcome_keeps_selection(txt, sel, cks, auto) ==
    LET failed == [required_count |-> NoneVal, limit |-> NoneVal, errors_text |-> NoErrors,
                   selected_keys |-> sel, ck_vars |-> cks, popup |-> ""]
    IN IF Strip(StripNL(txt)) = ""
       THEN [failed EXCEPT !.popup = IF auto THEN "" ELSE "warn_no_input"]
       ELSE Only({
           IF v.errors # <<>>
           THEN [failed EXCEPT !.errors_text = [kind |-> "lines", errors |-> v.errors,
                                                counts |-> <<>>],
                               !.popup = IF auto THEN "" ELSE "err_verify"]
           ELSE IF Len(v.counts) # 1
           THEN [failed EXCEPT !.errors_text = [kind |-> "counts", errors |-> <<>>,
                                                counts |-> v.counts],
                               !.popup = IF auto THEN "" ELSE "err_counts"]
           ELSE [required_count |-> v.counts[1], limit |-> v.counts[1],
                 errors_text |-> NoErrors,
                 selected_keys |-> sel,
                 ck_vars |-> cks,
                 popup |-> ""]
           : v \in {Plus_verify_lines(Plus_lines(txt))}})

\* OrderedCheckboxes.clear / the tail of verify_input
Plus_verify_outcome(txt, sel, cks, auto) ==
    LET failed == [required_count |-> NoneVal, limit |-> NoneVal, errors_text |-> NoErrors,
                   selected_keys |-> sel, ck_vars |-> cks, popup |-> ""]
    IN IF Strip(StripNL(txt)) = ""
       THEN [failed EXCEPT !.popup = IF auto THEN "" ELSE "warn_no_input"]
       ELSE Only({
           IF v.errors # <<>>
           THEN [failed EXCEPT !.errors_text = [kind |-> "lines", errors |-> v.errors,
                                                counts |-> <<>>],
                               !.popup = IF auto THEN "" ELSE "err_verify"]
           ELSE IF Len(v.counts) # 1
           THEN [failed EXCEPT !.errors_text = [kind |-> "counts", errors |-> <<>>,
                                                counts |-> v.counts],
                               !.popup = IF auto THEN "" ELSE "err_counts"]
           ELSE [required_count |-> v.counts[1], limit |-> v.counts[1],
                 errors_text |-> NoErrors,
                 selected_keys |-> IF Len(sel) > v.counts[1] THEN <<>> ELSE sel,
                 ck_vars |-> IF Len(sel) > v.counts[1] THEN {} ELSE cks,
                 popup |-> ""]
           : v \in {Plus_verify_lines(Plus_lines(txt))}})

Plus_make_order(name, number, gender, nickname, blood, garment_map) ==
    [k \in {"Name", "Nickname", "Number", "BloodType", "Gender"}
           \cup {GARMENTS[i] : i \in 1..Len(GARMENTS)} |->
        IF k \in DOMAIN garment_map THEN garment_map[k]
        ELSE IF k = "Name" THEN name
        ELSE IF k = "Nickname" THEN nickname
        ELSE IF k = "Number" THEN number
        ELSE IF k = "BloodType" THEN blood
        ELSE IF k = "Gender" THEN gender
        ELSE ""]

\* a faulty loop body: the sizes go to the selected garments in the order of GARMENTS
Plus_generate_line_display_order(line, selected, required) ==
    Only({LET pos == {i \in 1..Len(GARMENTS) : \E j \in 1..Len(selected) :
                                                   selected[j] = GARMENTS[i]}
              garment_map == [k \in {GARMENTS[i] : i \in 1..Len(GARMENTS)} |->
                                IF \E i \in 1..Len(selected) : selected[i] = k
                                THEN p.sizes[Cardinality({i \in pos :
                                                 i <= CHOOSE g \in pos : GARMENTS[g] = k})]
                                ELSE ""]
          IN IF p.err # "" THEN [err |-> p.err, order |-> <<>>]
             ELSE IF Len(p.sizes) # required THEN [err |-> "count_differs", order |-> <<>>]
             ELSE Only({IF gender = "DIVERGENCE" THEN [err |-> "divergence", order |-> <<>>]
                        ELSE [err |-> "",
                              order |-> Plus_make_order(Plus_normalize_name(p.name),
                                            Plus_normalize_spaces(p.number), gender,
                                            Plus_normalize_name(p.nickname),
                                            Plus_normalize_spaces(p.blood), garment_map)]
                        : gender \in {Plus_detect_gender_from_sizes(p.sizes)}})
          : p \in {Plus_parse_line_dynamic(line)}})

\* the body of generate_json's loop for one line: an order, or err # ""
Plus_generate_line(line, selected, required) ==
    Only({LET garment_map == [k \in {GARMENTS[i] : i \in 1..Len(GARMENTS)} |->
                                IF \E i \in 1..Len(selected) : selected[i] = k
                                THEN p.sizes[CHOOSE i \in 1..Len(selected) : selected[i] = k]
                                ELSE ""]
          IN IF p.err # "" THEN [err |-> p.err, order |-> <<>>]
             ELSE IF Len(p.sizes) # required THEN [err |-> "count_differs", order |-> <<>>]
             ELSE Only({IF gender = "DIVERGENCE" THEN [err |-> "divergence", order |-> <<>>]
                        ELSE [err |-> "",
                              order |-> Plus_make_order(Plus_normalize_name(p.name),
                                            Plus_normalize_spaces(p.number), gender,
                                            Plus_normalize_name(p.nickname),
                                            Plus_normalize_spaces(p.blood), garment_map)]
                        : gender \in {Plus_detect_gender_from_sizes(p.sizes)}})
          : p \in {Plus_parse_line_dynamic(line)}})

\* generate_json after its optional auto-verification: what it shows and writes
Plus_generate_lines(lines, selected, required) ==
    Only({Only({IF errs # <<>>
                THEN [popup |-> "err_generate", write |-> FALSE, orders |-> <<>>,
                      errors |-> errs]
                ELSE [popup |-> "generated", write |-> TRUE,
                      orders |-> [i \in 1..Len(lines) |-> res[i].order], errors |-> <<>>]
                : errs \in {SelectSeq2([i \in 1..Len(lines) |->
                                           [line_no |-> i, raw |-> lines[i],
                                            reason |-> res[i].err]],
                                       [i \in 1..Len(lines) |-> res[i].err # ""])}})
          : res \in {<<>> \o [i \in 1..Len(lines) |->
                                 Plus_generate_line(lines[i], selected, required)]}})

\* a faulty generate_json: the selection is not compared with required_count
Plus_generate_outcome_any_selection(txt, selected, required) ==
    IF Len(selected) = 0
    THEN [popup |-> "err_no_selection", write |-> FALSE, orders |-> <<>>, errors |-> <<>>]
    ELSE Only({IF Strip(StripNL(txt)) = "" \/ lines = <<>>
               THEN [popup |-> "warn_no_input", write |-> FALSE, orders |-> <<>>,
                     errors |-> <<>>]
               ELSE Plus_generate_lines(lines, selected, required)
               : lines \in {Plus_lines(txt)}})

\* generate_json from its selection checks on
Plus_generate_outcome(txt, selected, required) ==
    IF Len(selected) = 0
    THEN [popup |-> "err_no_selection", write |-> FALSE, orders |-> <<>>, errors |-> <<>>]
    ELSE IF required # NoneVal /\ Len(selected) # required
    THEN [popup |-> "err_selection_count", write |-> FALSE, orders |-> <<>>, errors |-> <<>>]
    ELSE Only({IF Strip(StripNL(txt)) = "" \/ lines = <<>>
               THEN [popup |-> "warn_no_input", write |-> FALSE, orders |-> <<>>,
                     errors |-> <<>>]
               ELSE Plus_generate_lines(lines, selected, required)
               : lines \in {Plus_lines(txt)}})


(***************************************************************************)
(* PXList                                                                  *)
(***************************************************************************)
PXList_ALLOWED_SIZES == {"PP", "P", "M", "G", "GG", "XGG", "XXGG"}

DigitPrefixLen(s) ==
    LET stops == {i \in 1..Len(s) : Ch(s, i) \notin Digits}
    IN IF stops = {} THEN Len(s) ELSE SetMin(stops) - 1

\* QTY_SIZE_RE = ^\s*(\d+)\s*([A-Za-z]+)\s*$
QtyGluedMatch(t) ==
    Only({Only({IF k >= 1 /\ IsAlphaStr(Strip(SubSeq(s, k + 1, Len(s))))
                THEN [ok |-> TRUE, qty |-> SubSeq(s, 1, k),
                      size |-> Strip(SubSeq(s, k + 1, Len(s)))]
                ELSE [ok |-> FALSE, qty |-> "", size |-> ""]
                : k \in {DigitPrefixLen(s)}})
          : s \in {Strip(t)}})

\* QTY_DASH_SIZE_RE = ^\s*(\d+)\s*-\s*([A-Za-z]+)\s*$
QtyDashAlphaMatch(t) ==
    Only({IF m.ok /\ IsAlphaStr(m.size) THEN m ELSE [ok |-> FALSE, qty |-> "", size |-> ""]
          : m \in {QtyDashAlnumMatch(t)}})

RECURSIVE OnlyDigits(_)
OnlyDigits(s) ==
    IF s = "" THEN ""
    ELSE Only({(IF Ch(s, 1) \in Digits THEN Ch(s, 1) ELSE "") \o OnlyDigits(rest)
               : rest \in {SubSeq(s, 2, Len(s))}})

\* a faulty normalize_number: the token trimmed and upper-cased, nothing dropped or added
PXList_normalize_number_verbatim(number_raw) == Upper(Strip(number_raw))

PXList_normalize_number(number_raw) ==
    Only({IF digits = "" THEN ""
          ELSE IF Len(digits) < 2 THEN "0" \o digits
          ELSE digits
          : digits \in {OnlyDigits(number_raw)}})

PXList_is_size_token(token) ==
    \E t \in {Upper(Strip(token))} :
        IF t = "" THEN FALSE
        ELSE IF ~IsAlphaStr(t) THEN FALSE
        ELSE IF t \in PXList_ALLOWED_SIZES THEN TRUE
        ELSE IF Len(t) >= 2 /\ SubSeq(t, 1, 2) = "BL"
             THEN SubSeq(t, 3, Len(t)) \in PXList_ALLOWED_SIZES
        ELSE FALSE

\* re.split(r"[,\s]+", raw) without the empty pieces
RECURSIVE SplitCommaSpace(_)
SplitCommaSpace(s) ==
    LET seps == {i \in 1..Len(s) : Ch(s, i) = "," \/ Ch(s, i) \in Whitespace}
    IN IF s = "" THEN <<>>
       ELSE IF seps = {} THEN <<s>>
       ELSE Only({(IF i = 1 THEN <<>> ELSE <<SubSeq(s, 1, i - 1)>>)
                    \o Only({SplitCommaSpace(rest) : rest \in {SubSeq(s, i + 1, Len(s))}})
                  : i \in {SetMin(seps)}})

PXList_tokenize_line(line) == SplitCommaSpace(Strip(line))

RemoveAt(seq, i) == SubSeq(seq, 1, i - 1) \o SubSeq(seq, i + 1, Len(seq))

\* what pass 1 of extract_qty_and_size finds in token tok
PXList_explicit_size(tok) ==
    Only({IF md.ok /\ PXList_is_size_token(Upper(md.size))
          THEN [ok |-> TRUE, qty |-> ParseInt(md.qty), size |-> Upper(md.size)]
          ELSE IF mg.ok /\ PXList_is_size_token(Upper(mg.size))
          THEN [ok |-> TRUE, qty |-> ParseInt(mg.qty), size |-> Upper(mg.size)]
          ELSE IF PXList_is_size_token(t) THEN [ok |-> TRUE, qty |-> 1, size |-> t]
          ELSE [ok |-> FALSE, qty |-> 0, size |-> ""]
          : t \in {Upper(Strip(tok))}, md \in {QtyDashAlphaMatch(Upper(Strip(tok)))},
            mg \in {QtyGluedMatch(Upper(Strip(tok)))}})

\* extract_qty_and_size: ok = FALSE for the ValueError
PXList_extract_qty_and_size(tokens) ==
    LET hits1 == {i \in 1..Len(tokens) : PXList_explicit_size(tokens[i]).ok}
        hits2 == {i \in 1..Len(tokens) :
                     /\ IsDigitStr(Upper(Strip(tokens[i])))
                     /\ i + 1 <= Len(tokens)
                     /\ PXList_is_size_token(Upper(Strip(tokens[i + 1])))}
    IN IF hits1 # {}
       THEN Only({[ok |-> TRUE, qty |-> e.qty, size |-> e.size,
                   rest |-> RemoveAt(tokens, SetMin(hits1))]
                  : e \in {PXList_explicit_size(tokens[SetMin(hits1)])}})
       ELSE IF hits2 # {}
       THEN LET i == SetMin(hits2)
            IN [ok |-> TRUE, qty |-> ParseInt(Upper(Strip(tokens[i]))),
                size |-> Upper(Strip(tokens[i + 1])),
                rest |-> RemoveAt(RemoveAt(tokens, i + 1), i)]
       ELSE [ok |-> FALSE, qty |-> 0, size |-> "", rest |-> tokens]

PXList_extract_number(tokens) ==
    LET hits == {i \in 1..Len(tokens) : HasDigit(tokens[i])}
    IN IF hits = {} THEN [number |-> "", rest |-> tokens]
       ELSE [number |-> PXList_normalize_number(tokens[SetMin(hits)]),
             rest |-> RemoveAt(tokens, SetMin(hits))]

\* the free-order branch of parse_line_smart
PXList_parse_free(raw) ==
    Only({Only({IF tokens = <<>> \/ ~e.ok
                THEN [ok |-> FALSE, name |-> "", number |-> "", qty |-> 0, size |-> ""]
                ELSE Only({[ok |-> TRUE, name |-> Upper(Strip(Join(n.rest, " "))),
                            number |-> n.number, qty |-> e.qty, size |-> Upper(e.size)]
                           : n \in {PXList_extract_number(e.rest)}})
                : e \in {PXList_extract_qty_and_size(tokens)}})
          : tokens \in {PXList_tokenize_line(raw)}})

PXList_comma_parts(raw) ==
    Only({<<>> \o [i \in 1..Len(ps) |-> Strip(ps[i])] : ps \in {Split(raw, ",")}})

\* the comma branch of parse_line_smart: ok = FALSE when the size column is not a size
PXList_parse_columns(comma_parts) ==
    Only({IF PXList_is_size_token(size_candidate)
          THEN [ok |-> TRUE, name |-> name, number |-> number, qty |-> 1,
                size |-> size_candidate]
          ELSE IF md.ok /\ PXList_is_size_token(Upper(md.size))
          THEN [ok |-> TRUE, name |-> name, number |-> number, qty |-> ParseInt(md.qty),
                size |-> Upper(md.size)]
          ELSE IF mg.ok /\ PXList_is_size_token(Upper(mg.size))
          THEN [ok |-> TRUE, name |-> name, number |-> number, qty |-> ParseInt(mg.qty),
                size |-> Upper(mg.size)]
          ELSE [ok |-> FALSE, name |-> "", number |-> "", qty |-> 0, size |-> ""]
          : name \in {Upper(comma_parts[1])},
            number \in {PXList_normalize_number(comma_parts[2])},
            size_candidate \in {Upper(Strip(comma_parts[3]))},
            md \in {QtyDashAlphaMatch(Upper(Strip(comma_parts[3])))},
            mg \in {QtyGluedMatch(Upper(Strip(comma_parts[3])))}})

\* a faulty parse_line_smart: a line with three comma fields is read by columns only
PXList_parse_line_smart_columns_only(line) ==
    IF Strip(line) = ""
    THEN [ok |-> FALSE, name |-> "", number |-> "", qty |-> 0, size |-> ""]
    ELSE Only({IF Len(comma_parts) >= 3
               THEN PXList_parse_columns(comma_parts)
               ELSE PXList_parse_free(Strip(line))
               : comma_parts \in {PXList_comma_parts(Strip(line))}})

\* parse_line_smart: ok = FALSE for the ValueError
PXList_parse_line_smart(line) ==
    IF Strip(line) = ""
    THEN [ok |-> FALSE, name |-> "", number |-> "", qty |-> 0, size |-> ""]
    ELSE Only({IF Len(comma_parts) >= 3 /\ PXList_parse_columns(comma_parts).ok
               THEN PXList_parse_columns(comma_parts)
               ELSE PXList_parse_free(Strip(line))
               : comma_parts \in {PXList_comma_parts(Strip(line))}})

PXList_make_order(name, number, qty, size) ==
    [Name |-> Upper(name), Nickname |-> "", Number |-> number, BloodType |-> "",
     Gender |-> IF HasSub(Upper(size), "BL") THEN "FE" ELSE "MA",
     ShortSleeve |-> IntToStr(qty) \o "-" \o Upper(size),
     LongSleeve |-> "", Short |-> "", Pants |-> "", Tanktop |-> "", Vest |-> ""]

\* a faulty convert_text_to_json: a blank line counts as skipped
RECURSIVE PXList_convert_lines_blank_skipped(_, _, _, _)
PXList_convert_lines_blank_skipped(lines, i, orders, skipped) ==
    IF i > Len(lines)
    THEN [NoResult EXCEPT !.status = "ok", !.parsed = orders, !.skipped = skipped]
    ELSE Only({IF ~p.ok
               THEN PXList_convert_lines_blank_skipped(lines, i + 1, orders, skipped + 1)
               ELSE Only({PXList_convert_lines_blank_skipped(lines, i + 1, acc, skipped)
                          : acc \in {Append(orders, PXList_make_order(p.name, p.number,
                                                                      p.qty, p.size))}})
               : p \in {PXList_parse_line_smart(Strip(lines[i]))}})

\* the loop of convert_text_to_json from line i on
RECURSIVE PXList_convert_lines(_, _, _, _)
PXList_convert_lines(lines, i, orders, skipped) ==
    IF i > Len(lines)
    THEN [NoResult EXCEPT !.status = "ok", !.parsed = orders, !.skipped = skipped]
    ELSE IF Strip(lines[i]) = "" THEN PXList_convert_lines(lines, i + 1, orders, skipped)
    ELSE Only({IF ~p.ok THEN PXList_convert_lines(lines, i + 1, orders, skipped + 1)
               ELSE Only({PXList_convert_lines(lines, i + 1, acc, skipped)
                          : acc \in {Append(orders, PXList_make_order(p.name, p.number,
                                                                      p.qty, p.size))}})
               : p \in {PXList_parse_line_smart(Strip(lines[i]))}})

PXList_convert_text_to_json(text) ==
    Only({PXList_convert_lines(lines, 1, <<>>, 0) : lines \in {SplitLines(text)}})


(***************************************************************************)
(* PXSortLite (Legado/PXSort parses and buckets with the same code)        *)
(***************************************************************************)
Sort_VALID_SIZES ==
    {"PP", "P", "M", "G", "GG", "XG", "XGG",
     "BLPP", "BLP", "BLM", "BLG", "BLGG",
     "2A", "4A", "6A", "8A", "10A", "12A", "14A", "16A"}

Sort_clean_token(s) ==
    Only({IF t # "" /\ ((Ch(t, 1) = "\"" /\ Ch(t, Len(t)) = "\"")
                        \/ (Ch(t, 1) = "'" /\ Ch(t, Len(t)) = "'"))
          THEN Strip(SubSeq(t, 2, Len(t) - 1))
          ELSE t
          : t \in {Strip(s)}})

Sort_normalize(text) == Upper(CollapseSpaces(Strip(text)))

Sort_is_number(tok) == IsDigitStr(tok)

RECURSIVE DropEmpty(_)
DropEmpty(seq) ==
    IF seq = <<>> THEN <<>>
    ELSE Only({(IF Head(seq) = "" THEN <<>> ELSE <<Head(seq)>>) \o DropEmpty(rest)
               : rest \in {Tail(seq)}})

Sort_parts(raw) ==
    Only({DropEmpty([i \in 1..Len(ps) |-> Sort_clean_token(ps[i])])
          : ps \in {Split(raw, ",")}})

NoItem == [ok |-> FALSE, size |-> "", name |-> "", number |-> ""]

\* parse_line once the size token parts[size_idx] is found
Sort_parse_rest(parts, size_idx) ==
    Only({Only({LET number == IF nums = {} THEN "" ELSE remaining[SetMax(nums)]
                    name_parts == IF nums = {} THEN remaining
                                  ELSE RemoveAt(remaining, SetMax(nums))
                IN IF remaining = <<>> THEN NoItem
                   ELSE Only({IF name = "" THEN NoItem
                              ELSE [ok |-> TRUE, size |-> Upper(parts[size_idx]),
                                    name |-> name, number |-> Sort_normalize(number)]
                              : name \in {Sort_normalize(Join(name_parts, " "))}})
                : nums \in {{i \in 1..Len(remaining) : Sort_is_number(remaining[i])}}})
          : remaining \in {RemoveAt(parts, size_idx)}})

\* parse_line: ok = FALSE for None
Sort_parse_line(line) ==
    IF Strip(line) = "" THEN NoItem
    ELSE Only({Only({IF parts = <<>> \/ sizes = {} THEN NoItem
                     ELSE Sort_parse_rest(parts, SetMin(sizes))
                     : sizes \in {{i \in 1..Len(parts) :
                                      Upper(parts[i]) \in Sort_VALID_SIZES}}})
               : parts \in {Sort_parts(Strip(line))}})

\* sorted(items, key=sort_key): stable insertion on (name, number)
RECURSIVE InsertItem(_, _)
InsertItem(sorted, it) ==
    IF sorted = <<>> THEN <<it>>
    ELSE Only({IF PairLess(it.name, it.number, last.name, last.number)
               THEN Append(InsertItem(init, it), last)
               ELSE Append(sorted, it)
               : last \in {sorted[Len(sorted)]}, init \in {SubSeq(sorted, 1, Len(sorted) - 1)}})

\* a faulty sort: the items of a bucket stay in input order
SortItems_input_order(items) == items

RECURSIVE SortItems(_)
SortItems(items) ==
    IF items = <<>> THEN <<>>
    ELSE Only({InsertItem(init, items[Len(items)])
               : init \in {SortItems(SubSeq(items, 1, Len(items) - 1))}})

\* sorted(S) for a set of strings
RECURSIVE SortedStrings(_)
SortedStrings(S) ==
    IF S = {} THEN <<>>
    ELSE Only({<<m>> \o Only({SortedStrings(rest) : rest \in {S \ {m}}})
               : m \in {CHOOSE x \in S : \A y \in S : ~StrLess(y, x)}})

\* a faulty process_text: a blank line is put on the ignored list
Sort_process_lines_blank_ignored(lines) ==
    Only({LET items(size) ==
                  SelectSeq2([i \in 1..Len(lines) |->
                                 [name |-> p[i].name, number |-> p[i].number]],
                             [i \in 1..Len(lines) |-> p[i].ok /\ p[i].size = size])
              ignored == SelectSeq2(lines, [i \in 1..Len(lines) |->
                                               ~p[i].ok])
          IN Only({[NoResult EXCEPT
                      !.status = "ok",
                      !.buckets = [k \in 1..Len(keys) |->
                                      [size |-> keys[k], items |-> SortItems(items(keys[k]))]],
                      !.ignored = ignored]
                   : keys \in {SortedStrings({p[i].size :
                                                 i \in {j \in 1..Len(lines) : p[j].ok}})}})
          : p \in {<<>> \o [i \in 1..Len(lines) |-> Sort_parse_line(lines[i])]}})

\* the loop, the sorting and the return value of process_text
Sort_process_lines(lines) ==
    Only({LET items(size) ==
                  SelectSeq2([i \in 1..Len(lines) |->
                                 [name |-> p[i].name, number |-> p[i].number]],
                             [i \in 1..Len(lines) |-> p[i].ok /\ p[i].size = size])
              ignored == SelectSeq2(lines, [i \in 1..Len(lines) |->
                                               ~p[i].ok /\ Strip(lines[i]) # ""])
          IN Only({[NoResult EXCEPT
                      !.status = "ok",
                      !.buckets = [k \in 1..Len(keys) |->
                                      [size |-> keys[k], items |-> SortItems(items(keys[k]))]],
                      !.ignored = ignored]
                   : keys \in {SortedStrings({p[i].size :
                                                 i \in {j \in 1..Len(lines) : p[j].ok}})}})
          : p \in {<<>> \o [i \in 1..Len(lines) |-> Sort_parse_line(lines[i])]}})

Sort_process_text(text) ==
    Only({Sort_process_lines(lines) : lines \in {SplitLines(text)}})


(***************************************************************************)
(* Jarvis: JSON orders to text lines                                       *)
(***************************************************************************)
FIELD_ORDER ==
    <<"Name", "Number", "ShortSleeve", "LongSleeve", "Short", "Pants", "Tanktop", "Vest",
      "Nickname", "BloodType">>

MANDATORY_FIELDS == {"Name", "Number"}

\* str.replace(old, new) for a one-character old
RECURSIVE ReplaceChar(_, _, _)
ReplaceChar(s, old, new) ==
    IF s = "" THEN ""
    ELSE Only({(IF c = old THEN new ELSE c) \o ReplaceChar(rest, old, new)
               : c \in {Ch(s, 1)}, rest \in {SubSeq(s, 2, Len(s))}})

\* normalize_str of a JSON string (a JSON null reads as the missing key: "")
Jarvis_normalize_str(x) == Strip(ReplaceChar(ReplaceChar(x, "\r", ""), "\n", " "))

\* entry.get(key, "")
Jarvis_get(entry, key) == IF key \in DOMAIN entry THEN entry[key] ELSE ""

\* a faulty decide_effective_fields: only the first order decides the columns
Jarvis_decide_effective_fields_first_order(orders) ==
    LET present == {FIELD_ORDER[f] : f \in {f \in 1..Len(FIELD_ORDER) :
                       /\ FIELD_ORDER[f] \notin MANDATORY_FIELDS
                       /\ \E i \in 1..Len(orders) :
                              /\ i = 1
                              /\ Jarvis_normalize_str(Jarvis_get(orders[i], FIELD_ORDER[f]))
                                     # ""}}
    IN SelectSeq2(FIELD_ORDER, [f \in 1..Len(FIELD_ORDER) |->
                                  FIELD_ORDER[f] \in MANDATORY_FIELDS
                                      \/ FIELD_ORDER[f] \in present])

Jarvis_decide_effective_fields(orders) ==
    LET present == {FIELD_ORDER[f] : f \in {f \in 1..Len(FIELD_ORDER) :
                       /\ FIELD_ORDER[f] \notin MANDATORY_FIELDS
                       /\ \E i \in 1..Len(orders) :
                              Jarvis_normalize_str(Jarvis_get(orders[i], FIELD_ORDER[f])) # ""}}
    IN SelectSeq2(FIELD_ORDER, [f \in 1..Len(FIELD_ORDER) |->
                                  FIELD_ORDER[f] \in MANDATORY_FIELDS
                                      \/ FIELD_ORDER[f] \in present])

\* re.match(r"^(\d+)-(.+)$", val) on a value without line breaks
QtyPrefixMatch(val) ==
    Only({IF n >= 1 /\ Len(val) >= n + 2 /\ Ch(val, n + 1) = "-"
          THEN [ok |-> TRUE, qtd |-> ParseInt(SubSeq(val, 1, n)),
                base |-> SubSeq(val, n + 2, Len(val))]
          ELSE [ok |-> FALSE, qtd |-> 0, base |-> ""]
          : n \in {DigitPrefixLen(val)}})

\* a faulty format_lines: the last column with a quantity prefix is the one expanded
Jarvis_expand_last_column(row_values) ==
    LET hits == {idx \in 1..Len(row_values) : QtyPrefixMatch(row_values[idx]).ok}
    IN IF hits = {} THEN <<Join(row_values, ",")>>
       ELSE Only({[n \in 1..m.qtd |-> Join([row_values EXCEPT ![idx] = m.base], ",")]
                  : idx \in {SetMax(hits)}, m \in {QtyPrefixMatch(row_values[SetMax(hits)])}})

\* the body of format_lines' loop for one order: its expanded_rows
Jarvis_expand(row_values) ==
    LET hits == {idx \in 1..Len(row_values) : QtyPrefixMatch(row_values[idx]).ok}
    IN IF hits = {} THEN <<Join(row_values, ",")>>
       ELSE Only({[n \in 1..m.qtd |-> Join([row_values EXCEPT ![idx] = m.base], ",")]
                  : idx \in {SetMin(hits)}, m \in {QtyPrefixMatch(row_values[SetMin(hits)])}})

RECURSIVE Flatten(_)
Flatten(seqs) ==
    IF seqs = <<>> THEN <<>>
    ELSE Only({Flatten(init) \o seqs[Len(seqs)] : init \in {SubSeq(seqs, 1, Len(seqs) - 1)}})

\* format_lines: err # "" for the ValueError
Jarvis_format_lines(data) ==
    IF ~data.is_list THEN [err |-> "orders_not_list", lines |-> <<>>, eff |-> <<>>]
    ELSE Only({[err |-> "",
                lines |-> Flatten([i \in 1..Len(data.orders) |->
                             Jarvis_expand([f \in 1..Len(eff) |->
                                 Jarvis_normalize_str(Jarvis_get(data.orders[i], eff[f]))])]),
                eff |-> eff]
               : eff \in {Jarvis_decide_effective_fields(data.orders)}})

(***************************************************************************)
(* Inputs                                                                  *)
(***************************************************************************)
Apps == {"PXListLite", "PXTotaList", "PXList", "PXSortLite", "PXListPlus", "Jarvis"}

TokenPool == {"ana", "10", "M", "2-g", ""}

\* every line of 1..MaxTokens comma-separated tokens of the pool
LineSet == {Join(f, ",") : f \in UNION {[1..n -> TokenPool] : n \in 1..MaxTokens}}

ExtraLines ==
    {"ana,bia,cy,M", "ana,10,M,bia,cy,dee", "ana,10,M,G,GG,P,PP", "12A,ana,3-G",
     "ana,10,20,M", "10,20,M", "10,7x1,20,M", "ana,\"\",M", "'ana',10,\"M\"", "ana,BLP,4A", "ana,XG,10",
     " ana  b , 01 , 2 - m ", "ana 2 BLP 7", "ana,7x1,zz,3m", "M,10,bia,G,20,ana,XGG",
     "0-G", "ana,0-G", "ana,10,0-G", "7x1,M", "ana,7x1,2-g", "0-G,M",
     "ana,M,G,2-g,P", "M,G,GG,P,PP,2-g", "M,G,GG,P,PP,2-g,M",
     "ana,13A,BL,BL4A,M", "blxgg,1A,A,xxgg,BLPP,B,10a", "'ana',10,M", "a\"b,\"10\",M",
     "ana,',M", "ana,5,M", "ana,02-g,10"}

BatchLines == {"ana,10,M", "zz", "", "ana,01,M,x"}

\* texts whose lines differ in their number of sizes or hold a size with quantity 0
ExtraTexts ==
    {"ana,10,M\nbia,2-g,G", "bia,2-g,G\nzz\nana,10,M", "ana,10,M\ncy,0-G",
     "cy,0-G\nana,10,M", "cy,0-G\nzz",
     "M,joao,10\nPedro,G,01\nMaria,M", "ana,2,M\nzz\nana,10,M\nana,G"}

\* every text of 2..MaxLines lines of BatchLines
BatchTexts == {Join(b, "\n") : b \in UNION {[1..n -> BatchLines] : n \in 2..MaxLines}}

Texts == LineSet \cup ExtraLines \cup BatchTexts \cup ExtraTexts

\* the texts the input box of PXListPlus can hold
PlusTexts ==
    {"", "ana,10,M", "ana,10,M\nbia,2-blg", "12A,ana,3-G\nbia,7x1,g,2-P",
     "ana,10,M\nbia,G\ncy,M,G", "zz\nana,M\nana,0-G", "\nana,M\n\nzz\n",
     "ana,BLP,4A", "ana,10,M,bia,cy,dee\n10,7x1,20,M",
     "ana,\"\",M\n'bia',10,G\ncy,G",
     "ana,P,M,G\nbia,01,P,02-m,G",
     "ana,M,G,GG,P,PP,2-g\nbia,M,G,GG,P,PP,2-g,M",
     "ana,13A,BL,BL4A,M\nblxgg,1A,A"}

NoDoc == [is_list |-> TRUE, orders |-> <<>>]

\* orders as PXList and PXListPlus write them, and hand-written ones: without sizes,
\* with a quantity prefix in the name, with line breaks, blank values and missing keys
JarvisOrders ==
    {PXList_make_order("ana", "10", 2, "m"),
     Plus_make_order("BIA", "", "FE", "BI", "",
                     [k \in {"ShortSleeve", "LongSleeve"} |->
                         IF k = "ShortSleeve" THEN "1-BLP" ELSE "3-BLG"]),
     [Name |-> "CY", Number |-> "7"],
     [Name |-> "2-D2", ShortSleeve |-> "2-M"],
     PXList_make_order("eva", "01", 0, "G"),
     [Name |-> " f\n", Number |-> "\r", Vest |-> "M", Nickname |-> " ",
      BloodType |-> "O+\ng"]}

\* the documents Jarvis is given: "orders" is a list of up to MaxLines orders, or is
\* not a list
JarvisDocs ==
    {[is_list |-> TRUE, orders |-> os]
        : os \in UNION {[1..n -> JarvisOrders] : n \in 0..MaxLines}}
    \cup {[is_list |-> FALSE, orders |-> <<>>]}

ClickableKeys == {GARMENTS[i] : i \in 1..MaxGarment}

(***************************************************************************)
(* State machine                                                           *)
(***************************************************************************)
Init ==
    /\ app \in Apps
    /\ txt_in \in (IF app = "PXListPlus" THEN PlusTexts
                  ELSE IF app = "Jarvis" THEN {""} ELSE Texts)
    /\ result = NoResult
    /\ required_count = NoneVal
    /\ input_dirty = FALSE
    /\ selected_keys = <<>>
    /\ limit = NoneVal
    /\ report = NoErrors
    /\ ck_vars = {}
    /\ popup = ""
    /\ out_file = <<>>
    /\ json_in \in (IF app = "Jarvis" THEN JarvisDocs ELSE {NoDoc})

PlusVars == <<required_count, input_dirty, selected_keys, limit, report, ck_vars>>

\* PXListLiteFrame.on_process
Lite_on_process ==
    /\ app = "PXListLite"
    /\ IF Strip(StripNL(txt_in)) = ""
       THEN /\ popup' = "warn_no_input"
            /\ result' = result
       ELSE \E r \in {Lite_process_text(StripNL(txt_in))} :
                /\ result' = r
                /\ popup' = IF r.status = "error" THEN "error" ELSE ""
    /\ out_file' = <<>>
    /\ UNCHANGED <<app, json_in, txt_in, PlusVars>>

\* PXTotaListFrame.on_process
Tota_on_process ==
    /\ app = "PXTotaList"
    /\ IF Strip(StripNL(txt_in)) = ""
       THEN /\ popup' = "warn_no_input"
            /\ result' = result
       ELSE \E r \in {Tota_process_text(StripNL(txt_in))} :
                /\ result' = r
                /\ popup' = IF r.status = "error" THEN "error" ELSE ""
    /\ out_file' = <<>>
    /\ UNCHANGED <<app, json_in, txt_in, PlusVars>>

\* PXList.generate_from_text
PXList_generate_from_text ==
    /\ app = "PXList"
    /\ IF Strip(txt_in) = ""
       THEN /\ popup' = "warn_no_input"
            /\ out_file' = <<>>
            /\ result' = result
       ELSE \E r \in {PXList_convert_text_to_json(Strip(txt_in))} :
                /\ result' = r
                /\ out_file' = r.parsed
                /\ popup' = "generated"
    /\ UNCHANGED <<app, json_in, txt_in, PlusVars>>

\* PXSortLite App.on_process
Sort_on_process ==
    /\ app = "PXSortLite"
    /\ IF Strip(txt_in) = ""
       THEN /\ popup' = "warn_no_input"
            /\ result' = result
       ELSE \E r \in {Sort_process_text(Strip(txt_in))} :
                /\ result' = r
                /\ popup' = IF r.ignored # <<>> THEN "info_ignored" ELSE ""
    /\ out_file' = <<>>
    /\ UNCHANGED <<app, json_in, txt_in, PlusVars>>

\* Jarvis handle_file on a .json file holding json_in: do_convert_json_data, or the
\* error box for an exception
Jarvis_handle_file ==
    /\ app = "Jarvis"
    /\ \E r \in {Jarvis_format_lines(json_in)} :
          IF r.err # ""
          THEN /\ result' = [NoResult EXCEPT !.status = "error", !.err_reason = r.err]
               /\ popup' = "error"
          ELSE /\ result' = [NoResult EXCEPT !.status = "ok", !.lines = r.lines,
                                             !.eff = r.eff, !.out = Join(r.lines, "\n")]
               /\ popup' = "info_converted"
    /\ out_file' = <<>>
    /\ UNCHANGED <<app, json_in, txt_in, PlusVars>>

RECURSIVE RemoveKey(_, _)
RemoveKey(seq, k) ==
    IF seq = <<>> THEN <<>>
    ELSE (IF Head(seq) = k THEN <<>> ELSE <<Head(seq)>>) \o RemoveKey(Tail(seq), k)

InSeq(seq, k) == \E i \in 1..Len(seq) : seq[i] = k

\* a click on the box of key: Tk flips its variable, then OrderedCheckboxes._on_toggle
Plus_on_toggle(key) ==
    /\ app = "PXListPlus"
    /\ IF key \notin ck_vars
       THEN IF limit # NoneVal /\ Len(selected_keys) >= limit
            THEN /\ popup' = "err_limit"
                 /\ UNCHANGED <<ck_vars, selected_keys>>
            ELSE /\ ck_vars' = ck_vars \cup {key}
                 /\ selected_keys' = IF InSeq(selected_keys, key) THEN selected_keys
                                     ELSE Append(selected_keys, key)
                 /\ popup' = ""
       ELSE /\ ck_vars' = ck_vars \ {key}
            /\ selected_keys' = RemoveKey(selected_keys, key)
            /\ popup' = ""
    /\ report' = NoErrors
    /\ out_file' = <<>>
    /\ UNCHANGED <<app, json_in, txt_in, result, required_count, input_dirty, limit>>

\* PXListPlusFrame.verify_input(auto=False): the Verificar button
Plus_verify_input ==
    /\ app = "PXListPlus"
    /\ UNCHANGED <<app, json_in, txt_in, result>>
    /\ input_dirty' = FALSE
    /\ out_file' = <<>>
    /\ \E o \in {Plus_verify_outcome(txt_in, selected_keys, ck_vars, FALSE)} :
          /\ required_count' = o.required_count
          /\ limit' = o.limit
          /\ report' = o.errors_text
          /\ selected_keys' = o.selected_keys
          /\ ck_vars' = o.ck_vars
          /\ popup' = o.popup

\* PXListPlusFrame.generate_json
Plus_generate_json ==
    /\ app = "PXListPlus"
    /\ \E reverify \in {input_dirty \/ required_count = NoneVal} :
       \E v \in {IF reverify
                 THEN Plus_verify_outcome(txt_in, selected_keys, ck_vars, TRUE)
                 ELSE [required_count |-> required_count, limit |-> limit,
                       errors_text |-> NoErrors, selected_keys |-> selected_keys,
                       ck_vars |-> ck_vars, popup |-> ""]} :
       \E g \in {Plus_generate_outcome(txt_in, v.selected_keys, v.required_count)} :
          /\ required_count' = v.required_count
          /\ limit' = v.limit
          /\ selected_keys' = v.selected_keys
          /\ ck_vars' = v.ck_vars
          /\ input_dirty' = IF reverify THEN FALSE ELSE input_dirty
          /\ IF reverify /\ v.required_count = NoneVal
             THEN /\ popup' = "warn_verify_first"
                  /\ report' = v.errors_text
                  /\ out_file' = <<>>
             ELSE /\ popup' = g.popup
                  /\ report' = IF g.write THEN NoErrors
                                    ELSE IF g.errors # <<>>
                                    THEN [kind |-> "lines", errors |-> g.errors,
                                          counts |-> <<>>]
                                    ELSE v.errors_text
                  /\ out_file' = IF g.write THEN g.orders ELSE <<>>
    /\ UNCHANGED <<app, json_in, txt_in, result>>

\* a faulty on_input_changed: the text changes and the verification is left in force
Plus_on_input_changed_unmarked(t) ==
    /\ app = "PXListPlus"
    /\ txt_in' = t
    /\ popup' = ""
    /\ report' = NoErrors
    /\ out_file' = <<>>
    /\ UNCHANGED <<app, json_in, result, selected_keys, ck_vars, input_dirty,
                   required_count, limit>>

\* a key release in the input box leaving text t: PXListPlusFrame.on_input_changed
Plus_on_input_changed(t) ==
    /\ app = "PXListPlus"
    /\ txt_in' = t
    /\ IF ~input_dirty
       THEN /\ input_dirty' = TRUE
            /\ required_count' = NoneVal
            /\ limit' = NoneVal
       ELSE UNCHANGED <<input_dirty, required_count, limit>>
    /\ popup' = ""
    /\ report' = NoErrors
    /\ out_file' = <<>>
    /\ UNCHANGED <<app, json_in, result, selected_keys, ck_vars>>

\* PXListPlusFrame.clear_selection
Plus_clear_selection ==
    /\ app = "PXListPlus"
    /\ selected_keys' = <<>>
    /\ ck_vars' = {}
    /\ popup' = ""
    /\ report' = NoErrors
    /\ out_file' = <<>>
    /\ UNCHANGED <<app, json_in, txt_in, result, required_count, input_dirty, limit>>

\* PXListPlusFrame.clear_all
Plus_clear_all ==
    /\ app = "PXListPlus"
    /\ txt_in' = ""
    /\ selected_keys' = <<>>
    /\ ck_vars' = {}
    /\ report' = NoErrors
    /\ required_count' = NoneVal
    /\ limit' = NoneVal
    /\ input_dirty' = FALSE
    /\ popup' = ""
    /\ out_file' = <<>>
    /\ UNCHANGED <<app, json_in, result>>

\* PXListPlusFrame.on_drop of a .txt file holding t: mark_dirty, then verify_input(auto=True)
Plus_on_drop(t) ==
    /\ app = "PXListPlus"
    /\ txt_in' = t
    /\ \E o \in {Plus_verify_outcome(t, selected_keys, ck_vars, TRUE)} :
          /\ required_count' = o.required_count
          /\ limit' = o.limit
          /\ report' = o.errors_text
          /\ selected_keys' = o.selected_keys
          /\ ck_vars' = o.ck_vars
          /\ popup' = o.popup
    /\ input_dirty' = FALSE
    /\ out_file' = <<>>
    /\ UNCHANGED <<app, json_in, result>>

Next ==
    \/ Lite_on_process
    \/ Tota_on_process
    \/ PXList_generate_from_text
    \/ Sort_on_process
    \/ Jarvis_handle_file
    \/ \E key \in ClickableKeys : Plus_on_toggle(key)
    \/ Plus_verify_input
    \/ Plus_generate_json
    \/ \E t \in PlusTexts : Plus_on_input_changed(t)
    \/ Plus_clear_selection
    \/ Plus_clear_all
    \/ \E t \in PlusTexts : Plus_on_drop(t)

Spec == Init /\ [][Next]_vars

(***************************************************************************)
(* Properties                                                              *)
(***************************************************************************)
\* the rows the last run of process_text returned, for the tool that ran
LiteRan == app = "PXListLite" /\ result.status # "none"

TotaRan == app = "PXTotaList" /\ result.status # "none"

\* C1: every row parse_line returned in PXListLite and PXTotaList, written by
\* build_output([r]) and parsed again by the same parse_line, is the same row
\* (name, number, sizes, s2, s3)
C1_RoundTrip ==
    /\ LiteRan => \A i \in 1..Len(result.parsed) :
           Lite_parse_line(Lite_build_output(<<result.parsed[i]>>)).row = result.parsed[i]
    /\ TotaRan => \A i \in 1..Len(result.parsed) :
           Tota_parse_line(Tota_build_output(<<result.parsed[i]>>)).row = result.parsed[i]

\* C1 (amended): a row whose name is not Number-shaped for its tool (all digits in
\* PXListLite, any digit in PXTotaList) is the same row after build_output([r]) and
\* parse_line
C1_RoundTripTextName ==
    /\ LiteRan => \A i \in 1..Len(result.parsed) :
           ~Lite_is_number(result.parsed[i].name) =>
               Lite_parse_line(Lite_build_output(<<result.parsed[i]>>)) =
                   [status |-> "ok", row |-> result.parsed[i], reason |-> ""]
    /\ TotaRan => \A i \in 1..Len(result.parsed) :
           ~Tota_is_number(result.parsed[i].name) =>
               Tota_parse_line(Tota_build_output(<<result.parsed[i]>>)) =
                   [status |-> "ok", row |-> result.parsed[i], reason |-> ""]

\* C1: PXListLite returned a row with a text name, a size and both extra strings, and
\* it round-trips
C1_Witness ==
    /\ LiteRan
    /\ \E i \in 1..Len(result.parsed) :
           /\ result.parsed[i].name # "" /\ ~Lite_is_number(result.parsed[i].name)
           /\ result.parsed[i].s3 # ""
           /\ Lite_parse_line(Lite_build_output(<<result.parsed[i]>>)).row = result.parsed[i]

\* the lines process_text enumerates (numbered from 1) in the batch tools
BatchInputLines == SplitLines(StripNL(txt_in))

Lite_failing ==
    {i \in 1..Len(BatchInputLines) : Lite_parse_line(BatchInputLines[i]).status = "error"}

Lite_valid ==
    {i \in 1..Len(BatchInputLines) : Lite_parse_line(BatchInputLines[i]).status = "ok"}

Tota_failing ==
    {i \in 1..Len(BatchInputLines) : Tota_parse_line(BatchInputLines[i]).status = "error"}

Tota_valid ==
    {i \in 1..Len(BatchInputLines) : Tota_parse_line(BatchInputLines[i]).status = "ok"}

\* the non-blank lines of the PXListPlus input that verify_input rejects
Plus_failing ==
    {i \in 1..Len(Plus_lines(txt_in)) : Plus_verify_line(Plus_lines(txt_in)[i]).err # ""}

\* the error pane lists exactly the failing lines: one entry each, in input order,
\* with the line's number and raw text
PlusErrorsComplete ==
    /\ Len(report.errors) = Cardinality(Plus_failing)
    /\ \A i \in Plus_failing : \E k \in 1..Len(report.errors) :
           report.errors[k].line_no = i /\ report.errors[k].raw = Plus_lines(txt_in)[i]
    /\ \A k \in 1..Len(report.errors) :
           k > 1 => report.errors[k - 1].line_no < report.errors[k].line_no

ErrorCount == IF result.status = "error" THEN 1 ELSE 0

\* C2: a failing line never aborts its siblings: after process_text (PXListLite,
\* PXTotaList) and after verify_input (PXListPlus) there is one error entry per
\* failing line and every valid line is parsed
C2_NoAbort ==
    /\ LiteRan => /\ ErrorCount = Cardinality(Lite_failing)
                  /\ Len(result.parsed) = Cardinality(Lite_valid)
    /\ TotaRan => /\ ErrorCount = Cardinality(Tota_failing)
                  /\ Len(result.parsed) = Cardinality(Tota_valid)
    /\ app = "PXListPlus" /\ report.kind = "lines" => PlusErrorsComplete

\* C2 (amended): PXListPlus lists every failing line, one entry each in input order;
\* process_text of PXListLite and PXTotaList stops at the first failing line: it
\* raises one error naming that line and returns no row and no output, and when no
\* line fails it returns one row per non-blank line
C2_AccumulateOrFailFast ==
    /\ LiteRan => IF Lite_failing # {}
                  THEN /\ result.status = "error"
                       /\ result.err_line = SetMin(Lite_failing)
                       /\ result.parsed = <<>> /\ result.out = ""
                  ELSE /\ result.status = "ok"
                       /\ Len(result.parsed) = Cardinality(Lite_valid)
    /\ TotaRan => IF Tota_failing # {}
                  THEN /\ result.status = "error"
                       /\ result.err_line = SetMin(Tota_failing)
                       /\ result.parsed = <<>> /\ result.out = ""
                  ELSE /\ result.status = "ok"
                       /\ Len(result.parsed) = Cardinality(Tota_valid)
    /\ app = "PXListPlus" /\ report.kind = "lines" => PlusErrorsComplete

\* C2: PXListPlus verified a text whose first and last lines fail around a valid
\* one, and listed both
C2_Witness ==
    /\ app = "PXListPlus"
    /\ popup = "err_verify"
    /\ report.kind = "lines"
    /\ Len(report.errors) = 2
    /\ Len(Plus_lines(txt_in)) = 3
    /\ report.errors[2].line_no = 3

\* C3: strict export: a file is written by generate_json only when required_count
\* is set and at least 1, exactly required_count garments are selected, and every
\* non-blank line of the input verifies with required_count sizes; one order per line
C3_StrictExport ==
    app = "PXListPlus" /\ out_file # <<>> =>
        /\ required_count # NoneVal
        /\ required_count >= 1
        /\ Len(selected_keys) = required_count
        /\ Plus_failing = {}
        /\ \A i \in 1..Len(Plus_lines(txt_in)) :
               Len(Plus_verify_line(Plus_lines(txt_in)[i]).sizes) = required_count
        /\ Len(out_file) = Len(Plus_lines(txt_in))

\* C3: generate_json wrote two orders of two garments each
C3_Witness ==
    /\ app = "PXListPlus"
    /\ Len(out_file) = 2
    /\ required_count = 2
    /\ Len(selected_keys) = 2

PXListRan == app = "PXList" /\ result.status # "none"

\* the lines convert_text_to_json enumerates
PXListInputLines == SplitLines(Strip(txt_in))

PXList_nonblank == {i \in 1..Len(PXListInputLines) : Strip(PXListInputLines[i]) # ""}

PXList_valid ==
    {i \in PXList_nonblank : PXList_parse_line_smart(Strip(PXListInputLines[i])).ok}

\* C4: lenient mode: convert_text_to_json returns one order per line that parses,
\* in input order, and counts the other non-blank lines as skipped; blank lines are
\* neither, so orders + skipped = non-blank lines
C4_Lenient ==
    PXListRan =>
        /\ Len(result.parsed) = Cardinality(PXList_valid)
        /\ result.skipped = Cardinality(PXList_nonblank \ PXList_valid)
        /\ Len(result.parsed) + result.skipped = Cardinality(PXList_nonblank)
        /\ \A i \in PXList_valid :
               \A p \in {PXList_parse_line_smart(Strip(PXListInputLines[i]))} :
                   result.parsed[Cardinality({j \in PXList_valid : j <= i})] =
                       PXList_make_order(p.name, p.number, p.qty, p.size)
        /\ out_file = result.parsed

\* C4: a text with a valid line, a blank line and a failing line gave one order and
\* one skipped line
C4_Witness ==
    /\ PXListRan
    /\ Len(PXListInputLines) = 3
    /\ Cardinality(PXList_nonblank) = 2
    /\ Len(result.parsed) = 1
    /\ result.skipped = 1

\* the sizes verify_input finds on each non-blank line of the input
PlusSizeCounts ==
    {Len(Plus_verify_line(Plus_lines(txt_in)[i]).sizes) : i \in 1..Len(Plus_lines(txt_in))}

PlusAllLinesOk == Plus_lines(txt_in) # <<>> /\ Plus_failing = {}

\* C5: verify_input sets required_count to c exactly when every non-blank line
\* verifies and all carry c sizes; otherwise it leaves required_count unset, and when
\* the counts differ it reports the distinct counts in increasing order
C5_StrictBatch ==
    [][Plus_verify_input =>
          \A ok \in {PlusAllLinesOk}, cnts \in {PlusSizeCounts} :
              /\ \A c \in 0..Plus_MaxSizes :
                     required_count' = c <=> (ok /\ cnts = {c})
              /\ required_count' = NoneVal <=> ~(ok /\ Cardinality(cnts) = 1)
              /\ ok /\ Cardinality(cnts) > 1 =>
                     /\ report'.kind = "counts"
                     /\ {report'.counts[k] : k \in 1..Len(report'.counts)} = cnts
                     /\ \A k \in 1..Len(report'.counts) :
                            k > 1 => report'.counts[k - 1] < report'.counts[k]]_vars

\* C5: lines with 1, 1 and 2 sizes were verified and reported as [1, 2]
C5_Witness ==
    /\ app = "PXListPlus"
    /\ popup = "err_counts"
    /\ report.kind = "counts"
    /\ report.counts = <<1, 2>>
    /\ Len(Plus_lines(txt_in)) = 3
    /\ required_count = NoneVal

(***************************************************************************)
(* Free-order classification, stated from the tokens of a line             *)
(***************************************************************************)
\* positions of the non-empty tokens that are not sizes
FreeTokens(parts, IsSize(_)) ==
    {i \in 1..Len(parts) : parts[i] # "" /\ ~IsSize(parts[i])}

\* position of the first Number-shaped token that is not a size (0: none)
FirstNumber(parts, IsSize(_), IsNum(_)) ==
    LET nums == {i \in FreeTokens(parts, IsSize) : IsNum(parts[i])}
    IN IF nums = {} THEN 0 ELSE SetMin(nums)

\* positions of the Text tokens: neither sizes nor the first Number-shaped token
TextTokens(parts, IsSize(_), IsNum(_)) ==
    FreeTokens(parts, IsSize) \ {FirstNumber(parts, IsSize, IsNum)}

\* the token at the k-th smallest position of S ("" when S has fewer)
NthToken(parts, S, k) ==
    IF Cardinality(S) < k THEN ""
    ELSE parts[CHOOSE i \in S : Cardinality({j \in S : j <= i}) = k]

TokenAt(parts, i) == IF i = 0 THEN "" ELSE parts[i]

\* the positions of the size tokens, in order
SizeTokens(parts, IsSize(_)) ==
    {i \in 1..Len(parts) : parts[i] # "" /\ IsSize(parts[i])}

\* name, number, s2 and s3 of a row
Fields(r) == [name |-> r.name, number |-> r.number, s2 |-> r.s2, s3 |-> r.s3]

\* what PXListLite binds from a line: the first Number-shaped non-size token is the
\* number, the other non-size tokens are name, s2, s3 in order
Lite_fields(line) ==
    LET parts == Lite_parts(Strip(line))
        texts == TextTokens(parts, Lite_is_size, Lite_is_number)
    IN [name |-> Upper(NthToken(parts, texts, 1)),
        number |-> Upper(TokenAt(parts, FirstNumber(parts, Lite_is_size, Lite_is_number))),
        s2 |-> Upper(NthToken(parts, texts, 2)),
        s3 |-> Upper(NthToken(parts, texts, 3))]

Tota_fields(line) ==
    LET parts == Tota_parts(Strip(line))
        texts == TextTokens(parts, Tota_is_size_token, Tota_is_number)
    IN [name |-> Upper(NthToken(parts, texts, 1)),
        number |-> Upper(TokenAt(parts,
                                 FirstNumber(parts, Tota_is_size_token, Tota_is_number))),
        s2 |-> Upper(NthToken(parts, texts, 2)),
        s3 |-> Upper(NthToken(parts, texts, 3))]

\* the same for an order of PXListPlus, whose number keeps its case
Plus_fields(line) ==
    LET parts == Plus_parts(Strip(line))
        texts == TextTokens(parts, Plus_is_size_token, HasDigit)
    IN [name |-> Plus_normalize_name(NthToken(parts, texts, 1)),
        number |-> Plus_normalize_spaces(
                       TokenAt(parts, FirstNumber(parts, Plus_is_size_token, HasDigit))),
        s2 |-> Plus_normalize_name(NthToken(parts, texts, 2)),
        s3 |-> Plus_normalize_name(NthToken(parts, texts, 3))]

LiteBindsFirstNumber ==
    LiteRan /\ result.status = "ok" =>
        {Fields(result.parsed[k]) : k \in 1..Len(result.parsed)}
            = {Lite_fields(BatchInputLines[i]) : i \in Lite_valid}

TotaBindsFirstNumber ==
    TotaRan /\ result.status = "ok" =>
        {Fields(result.parsed[k]) : k \in 1..Len(result.parsed)}
            = {Tota_fields(BatchInputLines[i]) : i \in Tota_valid}

PlusBindsFirstNumber ==
    app = "PXListPlus" /\ out_file # <<>> =>
        \A i \in 1..Len(out_file) :
            [name |-> out_file[i].Name, number |-> out_file[i].Number,
             s2 |-> out_file[i].Nickname, s3 |-> out_file[i].BloodType]
                = Plus_fields(Plus_lines(txt_in)[i])

SortRan == app = "PXSortLite" /\ result.status # "none"

\* the lines PXSort's process_text enumerates
SortInputLines == SplitLines(Strip(txt_in))

Sort_valid == {i \in 1..Len(SortInputLines) : Sort_parse_line(SortInputLines[i]).ok}

\* the items of every bucket, with the bucket's size
SortItemsOut ==
    UNION {{[size |-> result.buckets[b].size, name |-> result.buckets[b].items[k].name,
             number |-> result.buckets[b].items[k].number]
            : k \in 1..Len(result.buckets[b].items)} : b \in 1..Len(result.buckets)}

Sort_is_size(tok) == Upper(tok) \in Sort_VALID_SIZES

\* what PXSort binds from a line it accepts: the first size token is the bucket, the
\* last all-digit token among the others is the number, the rest is the name
Sort_fields(line) ==
    LET parts == Sort_parts(Strip(line))
        size_idx == SetMin(SizeTokens(parts, Sort_is_size))
        nums == {i \in 1..Len(parts) : i # size_idx /\ Sort_is_number(parts[i])}
        number_idx == IF nums = {} THEN 0 ELSE SetMax(nums)
        name_parts == SelectSeq2(parts, [i \in 1..Len(parts) |->
                                            i # size_idx /\ i # number_idx])
    IN [size |-> Upper(parts[size_idx]),
        name |-> Sort_normalize(Join(name_parts, " ")),
        number |-> TokenAt(parts, number_idx)]

\* the first all-digit token of a line of PXSort that is not a size
Sort_first_number(line) ==
    LET parts == Sort_parts(Strip(line))
    IN TokenAt(parts, FirstNumber(parts, Sort_is_size, Sort_is_number))

SortBindsLastNumber ==
    SortRan => SortItemsOut = {Sort_fields(SortInputLines[i]) : i \in Sort_valid}

SortBindsFirstNumber ==
    SortRan => {it.number : it \in SortItemsOut}
                   = {Sort_first_number(SortInputLines[i]) : i \in Sort_valid}

\* C6: a line with four or more Text tokens (more than name, nickname and bloodType
\* absorb) is rejected: PXListLite and PXTotaList raise for it, PXListPlus writes no
\* file for an input holding it
C6_TooManyColumns ==
    /\ LiteRan /\ (\E i \in 1..Len(BatchInputLines) :
                      \A parts \in {Lite_parts(Strip(BatchInputLines[i]))} :
                          Cardinality(TextTokens(parts, Lite_is_size, Lite_is_number)) >= 4)
           => result.status = "error"
    /\ TotaRan /\ (\E i \in 1..Len(BatchInputLines) :
                      \A parts \in {Tota_parts(Strip(BatchInputLines[i]))} :
                          Cardinality(TextTokens(parts, Tota_is_size_token,
                                                 Tota_is_number)) >= 4)
           => result.status = "error"
    /\ app = "PXListPlus" /\ out_file # <<>> =>
           \A i \in 1..Len(Plus_lines(txt_in)) :
               \A parts \in {Plus_parts(Plus_lines(txt_in)[i])} :
                   Cardinality(TextTokens(parts, Plus_is_size_token, HasDigit)) < 4

\* C7: in PXListLite, PXTotaList, PXListPlus and PXSort the number of a record is the
\* first Number-shaped token of its line that is not a size, and the later ones are
\* Text (name, then nickname, then bloodType)
C7_FirstNumber ==
    /\ LiteBindsFirstNumber
    /\ TotaBindsFirstNumber
    /\ PlusBindsFirstNumber
    /\ SortBindsFirstNumber

\* C7 (amended): PXListLite, PXTotaList and PXListPlus bind the first Number-shaped
\* non-size token as the number and treat every later one as Text (name, nickname,
\* bloodType in order); PXSort binds the last all-digit token other than the bucket's
\* size token as the number, and every other token joins the name
C7_NumberBinding ==
    /\ LiteBindsFirstNumber
    /\ TotaBindsFirstNumber
    /\ PlusBindsFirstNumber
    /\ SortBindsLastNumber

\* C7: PXSort parsed "ana,10,20,M": the last all-digit token is the number and the
\* first one is part of the name
C7_Witness ==
    /\ SortRan
    /\ txt_in = "ana,10,20,M"
    /\ SortItemsOut = {[size |-> "M", name |-> "ANA 10", number |-> "20"]}

\* the canonical sizes of a line, in order
Lite_sizes(line) ==
    LET parts == Lite_parts(Strip(line))
    IN SelectSeq2([i \in 1..Len(parts) |-> Upper(parts[i])],
                  [i \in 1..Len(parts) |-> i \in SizeTokens(parts, Lite_is_size)])

Tota_sizes(line) ==
    LET parts == Tota_parts(Strip(line))
    IN SelectSeq2([i \in 1..Len(parts) |-> Tota_normalize_size_token(parts[i]).val],
                  [i \in 1..Len(parts) |-> i \in SizeTokens(parts, Tota_is_size_token)])

Plus_sizes(line) ==
    LET parts == Plus_parts(Strip(line))
    IN SelectSeq2([i \in 1..Len(parts) |-> Plus_normalize_size_token(parts[i]).val],
                  [i \in 1..Len(parts) |-> i \in SizeTokens(parts, Plus_is_size_token)])

\* no bound field of row r is a size, and a Number-shaped text field means the number
\* is bound
NoSizeOutsideSizes(r, IsSize(_), IsNum(_)) ==
    /\ \A f \in {r.name, r.number, r.s2, r.s3} : f # "" => ~IsSize(f)
    /\ \A f \in {r.name, r.s2, r.s3} : f # "" /\ IsNum(f) => r.number # ""

\* C8: precedence size > number > text: every token that is a valid size (bare or
\* qty-dash) is in the record's sizes, in order, and none is bound to name, number,
\* nickname or bloodType; a Number-shaped non-size token becomes Text only when the
\* number is already bound
C8_Precedence ==
    /\ LiteRan /\ result.status = "ok" =>
           /\ {result.parsed[k].tams : k \in 1..Len(result.parsed)}
                  = {Lite_sizes(BatchInputLines[i]) : i \in Lite_valid}
           /\ \A k \in 1..Len(result.parsed) :
                  NoSizeOutsideSizes(result.parsed[k], Lite_is_size, Lite_is_number)
    /\ TotaRan /\ result.status = "ok" =>
           /\ {result.parsed[k].tams : k \in 1..Len(result.parsed)}
                  = {Tota_sizes(BatchInputLines[i]) : i \in Tota_valid}
           /\ \A k \in 1..Len(result.parsed) :
                  NoSizeOutsideSizes(result.parsed[k], Tota_is_size_token, Tota_is_number)
    /\ app = "PXListPlus" /\ out_file # <<>> =>
           \A i \in 1..Len(out_file) :
               /\ [k \in 1..Len(selected_keys) |-> out_file[i][selected_keys[k]]]
                      = Plus_sizes(Plus_lines(txt_in)[i])
               /\ NoSizeOutsideSizes([name |-> out_file[i].Name,
                                      number |-> out_file[i].Number,
                                      s2 |-> out_file[i].Nickname,
                                      s3 |-> out_file[i].BloodType],
                                     Plus_is_size_token, HasDigit)

\* C8: PXTotaList parsed "12A,ana,3-G": both digit-bearing sizes are sizes and no
\* number is bound
C8_Witness ==
    /\ TotaRan
    /\ txt_in = "12A,ana,3-G"
    /\ result.parsed = <<[name |-> "ANA", number |-> "", tams |-> <<"1-12A", "3-G">>,
                          s2 |-> "", s3 |-> ""]>>

\* a line of PXList holds a size token: a token, or its third comma column, is a
\* size with or without a quantity
PXList_has_size(line) ==
    \/ \E tokens \in {PXList_tokenize_line(line)} :
           \E i \in 1..Len(tokens) : PXList_explicit_size(tokens[i]).ok
    \/ \E cols \in {PXList_comma_parts(Strip(line))} :
           Len(cols) >= 3 /\ PXList_explicit_size(cols[3]).ok

\* C9: every emitted record comes from a line with at least one valid size token:
\* rows of PXListLite and PXTotaList carry a size and every line had one; PXSort and
\* PXList emit nothing for a line without a size token (it is ignored or skipped) and
\* no order without a valid size; PXListPlus writes orders only when every line has a
\* size for each selected garment
C9_SizeRequired ==
    /\ LiteRan /\ result.status = "ok" =>
           /\ \A k \in 1..Len(result.parsed) : result.parsed[k].tams # <<>>
           /\ \A i \in 1..Len(BatchInputLines) :
                  Strip(BatchInputLines[i]) # "" =>
                      SizeTokens(Lite_parts(Strip(BatchInputLines[i])), Lite_is_size) # {}
    /\ TotaRan /\ result.status = "ok" =>
           /\ \A k \in 1..Len(result.parsed) : result.parsed[k].tams # <<>>
           /\ \A i \in 1..Len(BatchInputLines) :
                  Strip(BatchInputLines[i]) # "" =>
                      SizeTokens(Tota_parts(Strip(BatchInputLines[i])),
                                 Tota_is_size_token) # {}
    /\ SortRan =>
           /\ \A it \in SortItemsOut : it.size \in Sort_VALID_SIZES
           /\ Cardinality(Sort_valid) + Len(result.ignored)
                  = Cardinality({i \in 1..Len(SortInputLines) :
                                    Strip(SortInputLines[i]) # ""})
           /\ \A i \in Sort_valid :
                  SizeTokens(Sort_parts(Strip(SortInputLines[i])), Sort_is_size) # {}
    /\ PXListRan =>
           /\ \A k \in 1..Len(result.parsed) :
                  PXList_is_size_token(AfterFirstDash(result.parsed[k].ShortSleeve))
           /\ \A i \in PXList_valid : PXList_has_size(PXListInputLines[i])
    /\ app = "PXListPlus" /\ out_file # <<>> =>
           /\ selected_keys # <<>>
           /\ \A i \in 1..Len(out_file) : \A k \in 1..Len(selected_keys) :
                  Plus_is_size_token(out_file[i][selected_keys[k]])
           /\ \A i \in 1..Len(Plus_lines(txt_in)) :
                  SizeTokens(Plus_parts(Plus_lines(txt_in)[i]), Plus_is_size_token) # {}

\* C9: PXSort bucketed one line and ignored another that has no size token
C9_Witness ==
    /\ SortRan
    /\ result.buckets # <<>>
    /\ result.ignored # <<>>
    /\ \E i \in 1..Len(SortInputLines) :
           /\ Strip(SortInputLines[i]) # ""
           /\ SizeTokens(Sort_parts(Strip(SortInputLines[i])), Sort_is_size) = {}

\* a token "QTY-SIZE" whose quantity is 0 and whose size code the tool accepts
ZeroQty(tok, IsSize(_)) ==
    \E m \in {QtyDashAlnumMatch(Upper(Strip(tok)))} :
        m.ok /\ ParseInt(m.qty) = 0 /\ IsSize(m.size)

HasZeroQty(parts, IsSize(_)) == \E i \in 1..Len(parts) : ZeroQty(parts[i], IsSize)

\* C10: a line holding a size token with quantity 0 yields no record: PXListLite and
\* PXTotaList raise for it, PXListPlus writes no file for an input holding it, PXList
\* skips it
C10_ZeroQuantityRejected ==
    /\ LiteRan /\ (\E i \in 1..Len(BatchInputLines) :
                      HasZeroQty(Lite_parts(Strip(BatchInputLines[i])), Lite_is_size))
           => result.status = "error"
    /\ TotaRan /\ (\E i \in 1..Len(BatchInputLines) :
                      HasZeroQty(Tota_parts(Strip(BatchInputLines[i])), Tota_is_size_token))
           => result.status = "error"
    /\ app = "PXListPlus" /\ out_file # <<>> =>
           \A i \in 1..Len(Plus_lines(txt_in)) :
               ~HasZeroQty(Plus_parts(Plus_lines(txt_in)[i]), Plus_is_size_token)
    /\ PXListRan =>
           \A i \in PXList_valid :
               ~HasZeroQty(PXList_tokenize_line(PXListInputLines[i]), PXList_is_size_token)

(***************************************************************************)
(* Size lists                                                              *)
(***************************************************************************)
\* the number of size tokens of each line of the batch (0 for a blank line)
Lite_size_count(i) ==
    Cardinality(SizeTokens(Lite_parts(Strip(BatchInputLines[i])), Lite_is_size))

Tota_size_count(i) ==
    Cardinality(SizeTokens(Tota_parts(Strip(BatchInputLines[i])), Tota_is_size_token))

Plus_size_count(i) ==
    Cardinality(SizeTokens(Plus_parts(Plus_lines(txt_in)[i]), Plus_is_size_token))

\* a line of PXTotaList that fails for something else than its number of sizes: a
\* token with a quote, or a size with quantity 0
Tota_other_error(i) ==
    \E parts \in {Tota_parts(Strip(BatchInputLines[i]))} :
        \/ \E k \in 1..Len(parts) : Tota_is_forbidden(parts[k])
        \/ HasZeroQty(parts, Tota_is_size_token)

NonBlank == {i \in 1..Len(BatchInputLines) : Strip(BatchInputLines[i]) # ""}

\* C11: sizes are stored in encounter order; a line with more than K size tokens is
\* rejected as a line and one with 1..K size tokens is not rejected for its sizes,
\* with K = 4 in PXListLite and K = 6 in PXTotaList and in verify_input of PXListPlus
C11_SizeLimit ==
    /\ LiteRan =>
           /\ (\E i \in NonBlank : Lite_size_count(i) > 4) => result.status = "error"
           /\ (\A i \in NonBlank : Lite_size_count(i) \in 1..4) => result.status = "ok"
           /\ result.status = "error" /\ result.err_reason = "too_many_sizes" =>
                  Lite_size_count(result.err_line) > 4
           /\ result.status = "ok" =>
                  {result.parsed[k].tams : k \in 1..Len(result.parsed)}
                      = {Lite_sizes(BatchInputLines[i]) : i \in NonBlank}
    /\ TotaRan =>
           /\ (\E i \in NonBlank : Tota_size_count(i) > 6) => result.status = "error"
           /\ (\A i \in NonBlank : Tota_size_count(i) \in 1..6 /\ ~Tota_other_error(i))
                  => result.status = "ok"
           /\ result.status = "error" /\ result.err_reason = "too_many_sizes" =>
                  Tota_size_count(result.err_line) > 6
           /\ result.status = "ok" =>
                  {result.parsed[k].tams : k \in 1..Len(result.parsed)}
                      = {Tota_sizes(BatchInputLines[i]) : i \in NonBlank}
    /\ app = "PXListPlus" =>
           /\ report.kind = "lines" =>
                  \A i \in 1..Len(Plus_lines(txt_in)) :
                      /\ Plus_size_count(i) > 6 =>
                             \E k \in 1..Len(report.errors) : report.errors[k].line_no = i
                      /\ Plus_size_count(i) <= 6 =>
                             \A k \in 1..Len(report.errors) :
                                 report.errors[k].line_no = i =>
                                     report.errors[k].reason # "too_many_sizes"
           /\ required_count # NoneVal =>
                  \A i \in 1..Len(Plus_lines(txt_in)) : Plus_size_count(i) \in 1..6

\* C11: PXTotaList parsed a line of exactly six sizes and kept them in order
C11_Witness ==
    /\ TotaRan
    /\ txt_in = "M,G,GG,P,PP,2-g"
    /\ result.parsed = <<[name |-> "", number |-> "",
                          tams |-> <<"1-M", "1-G", "1-GG", "1-P", "1-PP", "2-G">>,
                          s2 |-> "", s3 |-> ""]>>

(***************************************************************************)
(* Gender of an order of PXListPlus                                        *)
(***************************************************************************)
\* the i-th non-blank line of the input holds a Child-class / a Babylook size
Plus_has_child(i) ==
    \E sizes \in {Plus_sizes(Plus_lines(txt_in)[i])} :
        \E k \in 1..Len(sizes) : Plus_is_child_size(AfterFirstDash(sizes[k]))

Plus_has_babylook(i) ==
    \E sizes \in {Plus_sizes(Plus_lines(txt_in)[i])} :
        \E k \in 1..Len(sizes) : Plus_is_babylook_size(AfterFirstDash(sizes[k]))

\* the i-th line reaches detect_gender_from_sizes in verify_input: it parses and
\* holds 1..6 sizes
Plus_reaches_gender(i) ==
    /\ Plus_parse_line_dynamic(Plus_lines(txt_in)[i]).err = ""
    /\ Plus_size_count(i) \in 1..6

\* C12: every written order has Gender C when its line holds a Child-class size and
\* no Babylook, FE when it holds a Babylook and no Child-class size, MA when it holds
\* neither; a line holding both is never written: verify_input lists it with the
\* divergence error, and lists no other line with that error
C12_Gender ==
    /\ app = "PXListPlus" /\ out_file # <<>> =>
           \A i \in 1..Len(out_file) :
               /\ ~(Plus_has_child(i) /\ Plus_has_babylook(i))
               /\ out_file[i].Gender = (IF Plus_has_child(i) THEN "C"
                                        ELSE IF Plus_has_babylook(i) THEN "FE"
                                        ELSE "MA")
    /\ app = "PXListPlus" /\ report.kind = "lines" =>
           \A i \in 1..Len(Plus_lines(txt_in)) :
               (\E k \in 1..Len(report.errors) :
                    report.errors[k].line_no = i /\ report.errors[k].reason = "divergence")
               <=> (Plus_reaches_gender(i) /\ Plus_has_child(i) /\ Plus_has_babylook(i))

\* C12: verify_input rejected the line "ana,BLP,4A" for its divergence
C12_Witness ==
    /\ app = "PXListPlus"
    /\ popup = "err_verify"
    /\ txt_in = "ana,BLP,4A"
    /\ Len(report.errors) = 1
    /\ report.errors[1].reason = "divergence"

(***************************************************************************)
(* Jarvis: rows of an order                                                *)
(***************************************************************************)
JarvisRan == app = "Jarvis" /\ result.status = "ok"

\* the values of order i under the emitted columns
JarvisRow(i) ==
    [f \in 1..Len(result.eff) |->
        Jarvis_normalize_str(Jarvis_get(json_in.orders[i], result.eff[f]))]

\* the lengths n for which v is n digits, a dash and a non-empty base (at most one)
QtyDigits(v) ==
    {n \in 1..(Len(v) - 2) : IsDigitStr(SubSeq(v, 1, n)) /\ Ch(v, n + 1) = "-"}

\* the columns of order i whose value has the form qty-base
JarvisQtyCols(i) == {f \in 1..Len(result.eff) : QtyDigits(JarvisRow(i)[f]) # {}}

\* the rows order i is to produce: qty rows with the first qty-base column replaced
\* by its base, or the single unchanged row
JarvisExpected(i) ==
    IF JarvisQtyCols(i) = {} THEN <<Join(JarvisRow(i), ",")>>
    ELSE LET f == SetMin(JarvisQtyCols(i))
             v == JarvisRow(i)[f]
             n == Only(QtyDigits(v))
         IN [j \in 1..ParseInt(SubSeq(v, 1, n)) |->
                Join([JarvisRow(i) EXCEPT ![f] = SubSeq(v, n + 2, Len(v))], ",")]

\* the number of output lines of the orders before order i
RECURSIVE JarvisStart(_)
JarvisStart(i) == IF i <= 1 THEN 0 ELSE JarvisStart(i - 1) + Len(JarvisExpected(i - 1))

\* C13: the output of format_lines is, order after order, the rows of the order: qty
\* rows with the first qty-base column (in emitted-column order) replaced by its base
\* and every other column as it is, or one unchanged row when no column has the form
C13_OneColumnExpansion ==
    JarvisRan =>
        /\ Len(result.lines) = JarvisStart(Len(json_in.orders) + 1)
        /\ \A i \in 1..Len(json_in.orders) :
               \A j \in 1..Len(JarvisExpected(i)) :
                   result.lines[JarvisStart(i) + j] = JarvisExpected(i)[j]

\* C13: an order with ShortSleeve "2-M" gave two rows with "M", and an order with
\* "1-BLP" and "3-BLG" gave one row that keeps "3-BLG"
C13_Witness ==
    /\ JarvisRan
    /\ Len(json_in.orders) = 2
    /\ result.lines = <<"ANA,10,M,,", "ANA,10,M,,", "BIA,,BLP,3-BLG,BI">>

(***************************************************************************)
(* Output schema of a batch                                                *)
(***************************************************************************)
\* the output of build_output, line by line and column by column
OutRows == [k \in 1..Len(result.parsed) |-> Split(SplitLines(result.out)[k], ",")]

\* the largest number of sizes of a row of the batch
BatchMaxTams == MaxOf({Len(result.parsed[k].tams) : k \in 1..Len(result.parsed)})

\* the optional columns the batch calls for, in their fixed order, with row k's values
OptionalCols(k) ==
    (IF \E j \in 1..Len(result.parsed) : result.parsed[j].s2 # ""
     THEN <<result.parsed[k].s2>> ELSE <<>>)
    \o (IF \E j \in 1..Len(result.parsed) : result.parsed[j].s3 # ""
        THEN <<result.parsed[k].s3>> ELSE <<>>)

\* after the name, the number and the size slots, every output row holds exactly the
\* optional columns the batch calls for
OptionalColsEmitted ==
    /\ Len(SplitLines(result.out)) = Len(result.parsed)
    /\ \A k \in 1..Len(result.parsed) :
           /\ Len(OutRows[k]) >= 2 + BatchMaxTams
           /\ SubSeq(OutRows[k], 3 + BatchMaxTams, Len(OutRows[k])) = OptionalCols(k)

\* position of a field in FIELD_ORDER
FieldPos(key) == CHOOSE f \in 1..Len(FIELD_ORDER) : FIELD_ORDER[f] = key

\* C14: the optional columns of an output are exactly those with a non-empty value in
\* some record of the batch that was just processed, in the fixed order: nickname and
\* bloodType after the sizes in PXListLite and PXTotaList, and in Jarvis every field of
\* FIELD_ORDER besides Name and Number (a value counts as Jarvis reads it, trimmed)
C14_SchemaFromBatch ==
    /\ LiteRan /\ result.status = "ok" => OptionalColsEmitted
    /\ TotaRan /\ result.status = "ok" => OptionalColsEmitted
    /\ JarvisRan =>
           /\ \A f \in 1..Len(FIELD_ORDER) :
                  (\E e \in 1..Len(result.eff) : result.eff[e] = FIELD_ORDER[f])
                  <=> \/ FIELD_ORDER[f] \in {"Name", "Number"}
                      \/ \E i \in 1..Len(json_in.orders) :
                             Jarvis_normalize_str(
                                 Jarvis_get(json_in.orders[i], FIELD_ORDER[f])) # ""
           /\ \A a, b \in 1..Len(result.eff) :
                  a < b => FieldPos(result.eff[a]) < FieldPos(result.eff[b])
           /\ \A l \in 1..Len(result.lines) :
                  Len(Split(result.lines[l], ",")) = Len(result.eff)

\* C14: PXListLite wrote a batch where one row has a nickname and no row a bloodType:
\* the nickname column is there for both rows, the bloodType column is not
C14_Witness ==
    /\ LiteRan
    /\ Len(result.parsed) = 2
    /\ result.out = "ANA,01,M,X\nANA,10,M,"

\* the number of optional columns of the batch
OptionalCount ==
    (IF \E j \in 1..Len(result.parsed) : result.parsed[j].s2 # "" THEN 1 ELSE 0)
    + (IF \E j \in 1..Len(result.parsed) : result.parsed[j].s3 # "" THEN 1 ELSE 0)

\* every output row has 2 + k + optional columns: name, number, the row's sizes in
\* slots 1..k with empty slots after its last size, then the optional columns
RowsAligned ==
    /\ Len(SplitLines(result.out)) = Len(result.parsed)
    /\ \A k \in 1..Len(result.parsed) :
           /\ Len(OutRows[k]) = 2 + BatchMaxTams + OptionalCount
           /\ OutRows[k][1] = result.parsed[k].name
           /\ OutRows[k][2] = result.parsed[k].number
           /\ \A j \in 1..BatchMaxTams :
                  OutRows[k][2 + j] = (IF j <= Len(result.parsed[k].tams)
                                       THEN result.parsed[k].tams[j] ELSE "")

\* C15: every row build_output emits for a batch has 2 + k + (nickname column) +
\* (bloodType column) columns, k being the largest size count of the batch; a row with
\* fewer sizes has empty size slots before the nickname column, so a column index is
\* the same field in every row (PXListLite and PXTotaList)
C15_RowsAligned ==
    /\ LiteRan /\ result.status = "ok" => RowsAligned
    /\ TotaRan /\ result.status = "ok" => RowsAligned

\* C15: PXTotaList wrote a batch of a row with one size and a row with two sizes: the
\* first is padded to two size slots
C15_Witness ==
    /\ TotaRan
    /\ result.out = "ANA,10,1-M,\nBIA,,2-G,1-G"

(***************************************************************************)
(* PXSort: groups                                                          *)
(***************************************************************************)
\* C16: the grouped output of PXSort has one group per distinct size code of the
\* accepted lines, the groups are in strictly ascending string order of their size
\* code, no group is empty, and the items of a group are in non-decreasing order of
\* (name, number) compared as strings
C16_GroupsSorted ==
    SortRan =>
        /\ {result.buckets[b].size : b \in 1..Len(result.buckets)}
               = {Sort_fields(SortInputLines[i]).size : i \in Sort_valid}
        /\ \A b \in 1..Len(result.buckets) :
               /\ b > 1 => StrLess(result.buckets[b - 1].size, result.buckets[b].size)
               /\ result.buckets[b].items # <<>>
               /\ \A k \in 2..Len(result.buckets[b].items) :
                      \E prev \in {result.buckets[b].items[k - 1]},
                         it \in {result.buckets[b].items[k]} :
                          ~PairLess(it.name, it.number, prev.name, prev.number)

\* C16: the batch M,joao,10 / Pedro,G,01 / Maria,M gave the groups G and M, with
\* M = [(JOAO, 10), (MARIA, "")]
C16_Witness ==
    /\ SortRan
    /\ txt_in = "M,joao,10\nPedro,G,01\nMaria,M"
    /\ result.buckets =
           <<[size |-> "G", items |-> <<[name |-> "PEDRO", number |-> "01"]>>],
             [size |-> "M", items |-> <<[name |-> "JOAO", number |-> "10"],
                                        [name |-> "MARIA", number |-> ""]>>]>>

(***************************************************************************)
(* Size taxonomy                                                           *)
(***************************************************************************)
\* the classes of an upper-cased code, over the adult set of a tool
AdultClass(code, adult) == code \in adult

BabylookClass(code, adult) == \E a \in adult : code = "BL" \o a

ChildClass(code) == \E n \in 2..12 : code = IntToStr(n) \o "A"

ClassCount(code, adult) ==
    (IF AdultClass(code, adult) THEN 1 ELSE 0)
    + (IF BabylookClass(code, adult) THEN 1 ELSE 0)
    + (IF ChildClass(code) THEN 1 ELSE 0)

\* the upper-cased bare codes (tokens without a dash) of the input
Tota_codes ==
    UNION {{Tota_upper(parts[k]) : k \in {k \in 1..Len(parts) :
                parts[k] # "" /\ ~HasChar(parts[k], "-")}}
           : parts \in {Tota_parts(Strip(BatchInputLines[i])) : i \in NonBlank}}

Plus_codes ==
    UNION {{Upper(parts[k]) : k \in {k \in 1..Len(parts) :
                parts[k] # "" /\ ~HasChar(parts[k], "-")}}
           : parts \in {Plus_parts(Plus_lines(txt_in)[i]) : i \in 1..Len(Plus_lines(txt_in))}}

\* C17: for every upper-cased code of the input, the predicates of PXTotaList and
\* PXListPlus are the classes Adult (in the adult set), Babylook ("BL" + adult code)
\* and Child (2..12 + "A"); no code is in two classes; is_size_token accepts the code
\* exactly when it is in a class, and PXTotaList then stores it as a size
C17_ExclusiveClasses ==
    /\ TotaRan =>
           \A code \in Tota_codes :
               /\ Tota_is_adult_size(code) <=> AdultClass(code, Tota_ADULT_SIZES)
               /\ Tota_is_babylook_size(code) <=> BabylookClass(code, Tota_ADULT_SIZES)
               /\ Tota_is_child_size(code) <=> ChildClass(code)
               /\ ClassCount(code, Tota_ADULT_SIZES) <= 1
               /\ Tota_is_size_token(code) <=> ClassCount(code, Tota_ADULT_SIZES) = 1
               /\ result.status = "ok" =>
                      (ClassCount(code, Tota_ADULT_SIZES) = 1
                       <=> \E r \in 1..Len(result.parsed) :
                               \E j \in 1..Len(result.parsed[r].tams) :
                                   result.parsed[r].tams[j] = "1-" \o code)
    /\ app = "PXListPlus" =>
           \A code \in Plus_codes :
               /\ Plus_is_adult_size(code) <=> AdultClass(code, Plus_ADULT_SIZES)
               /\ Plus_is_babylook_size(code) <=> BabylookClass(code, Plus_ADULT_SIZES)
               /\ Plus_is_child_size(code) <=> ChildClass(code)
               /\ ClassCount(code, Plus_ADULT_SIZES) <= 1
               /\ Plus_is_size_token(code) <=> ClassCount(code, Plus_ADULT_SIZES) = 1

\* C17: PXTotaList parsed a line with a Babylook, an Adult and a Child code and the
\* invalid codes 1A, A and B
C17_Witness ==
    /\ TotaRan
    /\ txt_in = "blxgg,1A,A,xxgg,BLPP,B,10a"
    /\ result.parsed = <<[name |-> "A", number |-> "1A",
                          tams |-> <<"1-BLXGG", "1-XXGG", "1-BLPP", "1-10A">>,
                          s2 |-> "B", s3 |-> ""]>>

\* the eight adult codes of the taxonomy
AdultCodes == {"PP", "P", "M", "G", "GG", "XG", "XGG", "XXGG"}

\* the tokens of a line that are adult codes, upper-cased
AdultTokens(parts) ==
    {Upper(parts[k]) : k \in {k \in 1..Len(parts) : Upper(parts[k]) \in AdultCodes}}

\* C18: each of the eight adult codes PP, P, M, G, GG, XG, XGG, XXGG met in an input
\* is a valid size for the tool that reads it (PXListLite, PXTotaList, PXSort, PXList,
\* PXListPlus), and PXListLite and PXTotaList store it in the row of its line
C18_AdultCodesEverywhere ==
    /\ LiteRan =>
           \A i \in NonBlank : \A code \in AdultTokens(Lite_parts(Strip(BatchInputLines[i]))) :
               /\ Lite_is_size(code)
               /\ result.status = "ok" =>
                      \E r \in 1..Len(result.parsed) :
                          \E j \in 1..Len(result.parsed[r].tams) :
                              result.parsed[r].tams[j] = code
    /\ TotaRan =>
           \A i \in NonBlank : \A code \in AdultTokens(Tota_parts(Strip(BatchInputLines[i]))) :
               /\ Tota_is_size_token(code)
               /\ result.status = "ok" =>
                      \E r \in 1..Len(result.parsed) :
                          \E j \in 1..Len(result.parsed[r].tams) :
                              result.parsed[r].tams[j] = "1-" \o code
    /\ SortRan =>
           \A i \in 1..Len(SortInputLines) :
               \A code \in AdultTokens(Sort_parts(Strip(SortInputLines[i]))) :
                   Sort_is_size(code)
    /\ PXListRan =>
           \A i \in PXList_nonblank :
               \A code \in AdultTokens(PXList_tokenize_line(PXListInputLines[i])) :
                   PXList_is_size_token(code)
    /\ app = "PXListPlus" =>
           \A i \in 1..Len(Plus_lines(txt_in)) :
               \A code \in AdultTokens(Plus_parts(Plus_lines(txt_in)[i])) :
                   Plus_is_size_token(code)

(***************************************************************************)
(* Quoted tokens                                                           *)
(***************************************************************************)
HasQuote(t) == HasChar(t, "\"") \/ HasChar(t, "'")

\* a token without one layer of matching quotes around it
Unwrap(t) ==
    IF Len(t) >= 2 /\ Ch(t, 1) = Ch(t, Len(t)) /\ Ch(t, 1) \in {"\"", "'"}
    THEN SubSeq(t, 2, Len(t) - 1) ELSE t

\* a line holds a forbidden token: a quoted-empty token, or one that still holds a
\* quote character once unwrapped
Forbidden(line) ==
    \E parts \in {Split(Strip(line), ",")} : \E k \in 1..Len(parts) :
        \E t \in {Strip(parts[k])} : t \in {"\"\"", "''"} \/ HasQuote(Unwrap(t))

\* C19: a line fails with the forbidden-token error exactly when one of its tokens is
\* quoted-empty or still holds a quote character after one layer of matching quotes
\* is removed: PXTotaList raises for such a line and for no other line with that
\* error, PXListPlus lists exactly such lines with it, PXSort accepts no such line
C19_QuotesUnwrapped ==
    /\ TotaRan =>
           /\ (\E i \in NonBlank : Forbidden(BatchInputLines[i])) => result.status = "error"
           /\ result.status = "error" /\ result.err_reason = "forbidden" =>
                  Forbidden(BatchInputLines[result.err_line])
    /\ app = "PXListPlus" /\ report.kind = "lines" =>
           \A k \in 1..Len(report.errors) :
               report.errors[k].reason = "forbidden" <=> Forbidden(report.errors[k].raw)
    /\ SortRan =>
           \A i \in Sort_valid : ~Forbidden(SortInputLines[i])

\* a line holds a quote character in some token
Quoted(line) ==
    \E parts \in {Split(Strip(line), ",")} : \E k \in 1..Len(parts) : HasQuote(parts[k])

\* a token that starts and ends with the same quote character, without its first and
\* last character (a lone quote character becomes empty)
StripEnds(t) ==
    IF t # "" /\ Ch(t, 1) = Ch(t, Len(t)) /\ Ch(t, 1) \in {"\"", "'"}
    THEN SubSeq(t, 2, Len(t) - 1) ELSE t

\* the non-empty tokens of a line, each without its wrapping quotes
UnwrappedParts(line) ==
    Only({DropEmpty([k \in 1..Len(parts) |-> Strip(StripEnds(Strip(parts[k])))])
          : parts \in {Split(Strip(line), ",")}})

\* C19 (amended): PXTotaList and PXListPlus remove no quotes: a line with a quote
\* character in any token fails, wrapped text included, and the forbidden-token error
\* is raised only for such a line; PXSort takes the first and last character off a
\* token that starts and ends with the same quote character, reads the line as the
\* non-empty tokens left and never fails for a quote
C19_QuotesPerTool ==
    /\ TotaRan =>
           /\ (\E i \in NonBlank : Quoted(BatchInputLines[i])) => result.status = "error"
           /\ result.status = "error" /\ result.err_reason = "forbidden" =>
                  Quoted(BatchInputLines[result.err_line])
    /\ app = "PXListPlus" =>
           /\ report.kind = "lines" =>
                  \A i \in 1..Len(Plus_lines(txt_in)) :
                      Quoted(Plus_lines(txt_in)[i])
                      <=> \E k \in 1..Len(report.errors) :
                              /\ report.errors[k].line_no = i
                              /\ report.errors[k].reason = "forbidden"
           /\ required_count # NoneVal =>
                  \A i \in 1..Len(Plus_lines(txt_in)) : ~Quoted(Plus_lines(txt_in)[i])
    /\ SortRan =>
           /\ popup \in {"", "info_ignored"}
           /\ \A i \in 1..Len(SortInputLines) :
                  Strip(SortInputLines[i]) # "" =>
                      /\ Sort_parts(Strip(SortInputLines[i]))
                             = UnwrappedParts(SortInputLines[i])
                      /\ i \in Sort_valid
                             <=> Sort_parse_line(Join(UnwrappedParts(SortInputLines[i]),
                                                      ",")).ok

\* C19: PXTotaList rejected 'ana',10,"M", whose tokens are wrapped in matching quotes
C19_Witness ==
    /\ TotaRan
    /\ txt_in = "'ana',10,\"M\""
    /\ result.status = "error"
    /\ result.err_reason = "forbidden"

(***************************************************************************)
(* The number of a record                                                  *)
(***************************************************************************)
\* the token PXTotaList binds as the number of a line ("" when it has none)
Tota_number_token(line) ==
    Only({TokenAt(parts, FirstNumber(parts, Tota_is_size_token, Tota_is_number))
          : parts \in {Tota_parts(Strip(line))}})

\* the same for PXListPlus
Plus_number_token(line) ==
    Only({TokenAt(parts, FirstNumber(parts, Plus_is_size_token, HasDigit))
          : parts \in {Plus_parts(Strip(line))}})

\* the same for PXList: the second column when the line parses by columns, the first
\* token with a digit left after the size otherwise
PXList_number_token(line) ==
    Only({IF Len(cp) >= 3 /\ PXList_parse_columns(cp).ok THEN cp[2]
          ELSE Only({IF hits = {} THEN "" ELSE rest[SetMin(hits)]
                     : hits \in {{i \in 1..Len(rest) : HasDigit(rest[i])}}})
          : cp \in {PXList_comma_parts(Strip(line))},
            rest \in {PXList_extract_qty_and_size(
                          PXList_tokenize_line(Strip(line))).rest}})

\* the line of PXList that produced the k-th order
PXList_line_of(k) ==
    PXListInputLines[CHOOSE i \in PXList_valid :
                         Cardinality({j \in PXList_valid : j <= i}) = k]

\* C20 as stated: in PXTotaList, PXListPlus and PXList the number of a record is the
\* bound number token trimmed and upper-cased, nothing dropped, added or left in
\* lower case
C20_NumberVerbatimUpper ==
    /\ TotaRan /\ result.status = "ok" =>
           {result.parsed[k].number : k \in 1..Len(result.parsed)}
               = {Upper(Strip(Tota_number_token(BatchInputLines[i]))) : i \in Tota_valid}
    /\ app = "PXListPlus" /\ out_file # <<>> =>
           \A i \in 1..Len(out_file) :
               out_file[i].Number = Upper(Strip(Plus_number_token(Plus_lines(txt_in)[i])))
    /\ PXListRan =>
           \A k \in 1..Len(result.parsed) :
               result.parsed[k].Number = Upper(Strip(PXList_number_token(PXList_line_of(k))))

\* C20 amended: PXTotaList keeps the bound number token trimmed and upper-cased;
\* PXListPlus keeps it trimmed with its case as typed (runs of inner whitespace become
\* one space); PXList keeps only its decimal digits, in order, with a "0" put before
\* a single digit ("7x1" gives "71", "5" gives "05", "01" stays "01")
C20_NumberPerTool ==
    /\ TotaRan /\ result.status = "ok" =>
           {result.parsed[k].number : k \in 1..Len(result.parsed)}
               = {Upper(Strip(Tota_number_token(BatchInputLines[i]))) : i \in Tota_valid}
    /\ app = "PXListPlus" /\ out_file # <<>> =>
           \A i \in 1..Len(out_file) :
               out_file[i].Number
                   = CollapseSpaces(Strip(Plus_number_token(Plus_lines(txt_in)[i])))
    /\ PXListRan =>
           \A k \in 1..Len(result.parsed) :
               LET d == OnlyDigits(PXList_number_token(PXList_line_of(k)))
               IN result.parsed[k].Number = IF Len(d) = 1 THEN "0" \o d ELSE d

C20_Witness ==
    /\ PXListRan
    /\ txt_in = "ana,7x1,zz,3m"
    /\ Len(result.parsed) = 1
    /\ result.parsed[1].Number = "71"

(***************************************************************************)
(* normalize_size_token                                                    *)
(***************************************************************************)
\* the tokens of the lines of the input of PXTotaList and of PXListPlus
Tota_input_tokens ==
    UNION {{ps[k] : k \in 1..Len(ps)}
           : ps \in {Tota_parts(Strip(BatchInputLines[i])) : i \in NonBlank}}

Plus_input_tokens ==
    UNION {{ps[k] : k \in 1..Len(ps)}
           : ps \in {Plus_parts(ln) : ln \in {Plus_lines(txt_in)[i]
                                              : i \in 1..Len(Plus_lines(txt_in))}}}

\* what the claim says of one token and its image n under normalize_size_token, for
\* the tool whose valid codes are Valid and whose function is Norm
SizeTokenCanonical(tok, Valid(_), Norm(_)) ==
    LET t == Upper(Strip(tok))
        m == QtyDashAlnumMatch(t)
        n == Norm(tok)
    IN /\ Valid(t) => n = [err |-> "", val |-> "1-" \o t]
       /\ m.ok /\ ParseInt(m.qty) >= 1 /\ Valid(Upper(m.size))
              => n = [err |-> "", val |-> IntToStr(ParseInt(m.qty)) \o "-" \o Upper(m.size)]
       /\ m.ok /\ ParseInt(m.qty) = 0 => n.err # ""
       /\ m.ok /\ ~Valid(Upper(m.size)) => n.err # ""
       /\ ~m.ok /\ ~Valid(t) => n.err # ""
       /\ n.err = "" => Norm(n.val) = n

\* C21: normalize_size_token of PXTotaList and PXListPlus maps a bare valid code c to
\* "1-c" and "q-c" with q >= 1 and c valid to "q-c" with q a plain integer, fails for
\* q = 0 and for an invalid code, and maps its own output to itself
C21_CanonicalSize ==
    /\ app = "PXTotaList" =>
           \A tok \in Tota_input_tokens :
               SizeTokenCanonical(tok, Tota_valid_code, Tota_normalize_size_token)
    /\ app = "PXListPlus" =>
           \A tok \in Plus_input_tokens :
               SizeTokenCanonical(tok, Plus_valid_code, Plus_normalize_size_token)

C21_Witness ==
    /\ TotaRan /\ result.status = "ok"
    /\ txt_in = "ana,02-g,10"
    /\ Len(result.parsed) = 1
    /\ result.parsed[1].tams = <<"2-G">>
    /\ Tota_normalize_size_token("2-G").val = "2-G"

(***************************************************************************)
(* PXList: the size column                                                 *)
(***************************************************************************)
\* the non-blank lines of PXList with at least three comma fields whose third field
\* is not empty and is not a size (bare, "3-G" or "3M")
PXList_bad_size_column ==
    {i \in PXList_nonblank :
        \E cp \in {PXList_comma_parts(Strip(PXListInputLines[i]))} :
            /\ Len(cp) >= 3
            /\ cp[3] # ""
            /\ ~PXList_parse_columns(cp).ok}

\* the order PXList made from line i
PXList_order_of(i) == result.parsed[Cardinality({j \in PXList_valid : j <= i})]

\* C22 as stated: a line whose size column holds a value that is not a size fails and
\* gives no record
C22_SizeColumnStrict ==
    PXListRan => PXList_bad_size_column \cap PXList_valid = {}

\* C22 amended: such a line is read again in free order: it gives a record when one of
\* its tokens (split on commas and blanks) is a size, with the first size found, the
\* first token with a digit among the others as number and the rest as name, and it
\* fails only when no token is a size
C22_SizeColumnFallsBack ==
    PXListRan =>
        \A i \in PXList_bad_size_column :
            \E e \in {PXList_extract_qty_and_size(
                          PXList_tokenize_line(Strip(PXListInputLines[i])))} :
                /\ i \in PXList_valid <=> e.ok
                /\ e.ok =>
                       \E n \in {PXList_extract_number(e.rest)} :
                           PXList_order_of(i)
                               = PXList_make_order(Upper(Strip(Join(n.rest, " "))),
                                                   n.number, e.qty, Upper(e.size))

C22_Witness ==
    /\ PXListRan
    /\ txt_in = "ana,bia,cy,M"
    /\ 1 \in PXList_bad_size_column
    /\ Len(result.parsed) = 1
    /\ result.parsed[1].Name = "ANA BIA CY"
    /\ result.parsed[1].ShortSleeve = "1-M"

(***************************************************************************)
(* PXListPlus: the garment columns of an order                             *)
(***************************************************************************)
OrderKeys ==
    {"Name", "Nickname", "Number", "BloodType", "Gender"}
        \cup {GARMENTS[g] : g \in 1..Len(GARMENTS)}

\* "q-c": a plain positive integer, a dash and a valid code in upper case
Plus_is_canonical(v) ==
    \E m \in {QtyDashAlnumMatch(v)} :
        /\ m.ok
        /\ ParseInt(m.qty) >= 1
        /\ Plus_valid_code(m.size)
        /\ v = IntToStr(ParseInt(m.qty)) \o "-" \o Upper(m.size)

\* C23: in every order PXListPlus writes, the i-th garment ticked holds the i-th size
\* of the line in canonical form, every other garment column is "", and the order has
\* exactly the keys Name, Nickname, Number, BloodType, Gender and the six garments
C23_GarmentColumns ==
    app = "PXListPlus" /\ out_file # <<>> =>
        \A i \in 1..Len(out_file) :
            /\ DOMAIN out_file[i] = OrderKeys
            /\ \E sizes \in {Plus_sizes(Plus_lines(txt_in)[i])} :
                  /\ Len(sizes) = Len(selected_keys)
                  /\ \A j \in 1..Len(selected_keys) :
                        /\ out_file[i][selected_keys[j]] = sizes[j]
                        /\ Plus_is_canonical(sizes[j])
            /\ \A g \in 1..Len(GARMENTS) :
                  ~InSeq(selected_keys, GARMENTS[g]) => out_file[i][GARMENTS[g]] = ""

C23_Witness ==
    /\ app = "PXListPlus"
    /\ txt_in = "12A,ana,3-G\nbia,7x1,g,2-P"
    /\ selected_keys = <<"LongSleeve", "ShortSleeve">>
    /\ Len(out_file) = 2
    /\ out_file[2].LongSleeve = "1-G"
    /\ out_file[2].ShortSleeve = "2-P"
    /\ out_file[2].Short = ""

(***************************************************************************)
(* PXList: a quantity written before the size                              *)
(***************************************************************************)
\* the lines of PXList that parse_line_smart reads in free order
PXList_free_order ==
    {i \in PXList_nonblank :
        \E cp \in {PXList_comma_parts(Strip(PXListInputLines[i]))} :
            Len(cp) < 3 \/ ~PXList_parse_columns(cp).ok}

\* the positions of a digits-only token followed by a size token
QtyThenSize(tokens) ==
    {p \in 1..(Len(tokens) - 1) :
        /\ IsDigitStr(Upper(Strip(tokens[p])))
        /\ PXList_is_size_token(Upper(Strip(tokens[p + 1])))}

\* C24 as stated: where a digits-only token stands just before a size token,
\* extract_qty_and_size returns that number as qty with the size and removes both
\* tokens, so the quantity is not taken as the number of the record
C24_SeparateQuantity ==
    PXListRan =>
        \A i \in PXList_free_order :
            \E tokens \in {PXList_tokenize_line(Strip(PXListInputLines[i]))} :
                QtyThenSize(tokens) # {} =>
                    \E p \in QtyThenSize(tokens),
                       e \in {PXList_extract_qty_and_size(tokens)} :
                        /\ e.ok
                        /\ e.qty = ParseInt(Upper(Strip(tokens[p])))
                        /\ Upper(e.size) = Upper(Strip(tokens[p + 1]))
                        /\ e.rest = RemoveAt(RemoveAt(tokens, p + 1), p)

(***************************************************************************)
(* PXListPlus: the verification in force                                   *)
(***************************************************************************)
\* what a verification of the present input would require (NoneVal: it fails)
Plus_required_now ==
    Plus_verify_outcome(txt_in, selected_keys, ck_vars, TRUE).required_count

\* C25: PXListPlus never generates from a stale verification: input_dirty implies
\* that required_count is unset; after an input-changed event (input_dirty is set
\* until the next verification) required_count and the limit are unset; a
\* required_count in force is the one a verification of the present input gives, and
\* generate_json writes a file only with such a required_count in force
C25_NoStaleVerification ==
    app = "PXListPlus" =>
        /\ input_dirty => required_count = NoneVal /\ limit = NoneVal
        /\ required_count # NoneVal => ~input_dirty /\ required_count = Plus_required_now
        /\ out_file # <<>> => required_count # NoneVal

C25_Witness ==
    /\ app = "PXListPlus"
    /\ txt_in = "ana,10,M\nbia,G\ncy,M,G"
    /\ input_dirty
    /\ required_count = NoneVal
    /\ selected_keys # <<>>

(***************************************************************************)
(* PXListPlus: the selection and its limit                                 *)
(***************************************************************************)
\* C26: after any sequence of toggle, verify, edit, drop, clear-selection and
\* clear-all events the limit of the checkboxes equals required_count (both unset or
\* the same number), a set limit is not exceeded by the number of selected garments,
\* and the ordered selection has no duplicates and holds exactly the ticked boxes
C26_SelectionWithinLimit ==
    app = "PXListPlus" =>
        /\ limit = required_count
        /\ limit # NoneVal => Len(selected_keys) <= limit
        /\ \A i, j \in 1..Len(selected_keys) :
               selected_keys[i] = selected_keys[j] => i = j
        /\ {selected_keys[i] : i \in 1..Len(selected_keys)} = ck_vars

C26_Witness ==
    /\ app = "PXListPlus"
    /\ popup = "err_limit"
    /\ limit = 1
    /\ required_count = 1
    /\ Len(selected_keys) = 1
    /\ ck_vars = {selected_keys[1]}

(***************************************************************************)
(* The line an error names                                                 *)
(***************************************************************************)
\* the lines of the input of PXListPlus as the text holds them, blank lines included
Plus_text_lines == SplitLines(StripNL(txt_in))

\* C27 as stated: an error names the failing line by its 1-based position in the
\* input text, blank lines included, with the text of that line: the first failing
\* line for process_text of PXListLite and PXTotaList, every entry of the error list
\* for PXListPlus
C27_ErrorLinePosition ==
    /\ LiteRan /\ result.status = "error" =>
           /\ result.err_line \in Lite_failing
           /\ Strip(BatchInputLines[result.err_line]) # ""
    /\ TotaRan /\ result.status = "error" =>
           /\ result.err_line \in Tota_failing
           /\ Strip(BatchInputLines[result.err_line]) # ""
    /\ app = "PXListPlus" /\ report.kind = "lines" =>
           \A k \in 1..Len(report.errors) :
               /\ report.errors[k].line_no \in 1..Len(Plus_text_lines)
               /\ Strip(Plus_text_lines[report.errors[k].line_no])
                      = Strip(report.errors[k].raw)

(***************************************************************************)
(* Jarvis: what the expansion leaves alone                                 *)
(***************************************************************************)
IdentityFields == {"Name", "Number", "Nickname", "BloodType"}

\* the emitted columns that hold an identity field
IdentityCols == {f \in 1..Len(result.eff) : result.eff[f] \in IdentityFields}

\* the row of order i with its identity columns emptied
JarvisGarmentRow(i) ==
    [f \in 1..Len(result.eff) |-> IF f \in IdentityCols THEN "" ELSE JarvisRow(i)[f]]

\* C28 as stated: the expansion rewrites a garment column only: Name, Number, Nickname
\* and BloodType of an order stand unchanged in every row emitted for it, and the
\* order gives as many rows as it would with these four fields empty
C28_IdentityUntouched ==
    JarvisRan =>
        \A i \in 1..Len(json_in.orders) :
            /\ Len(JarvisExpected(i)) = Len(Jarvis_expand(JarvisGarmentRow(i)))
            /\ \A j \in 1..Len(JarvisExpected(i)) :
                   \E cols \in {Split(result.lines[JarvisStart(i) + j], ",")} :
                       \A f \in IdentityCols : cols[f] = JarvisRow(i)[f]

(***************************************************************************)
(* Jarvis: every order gives a line                                        *)
(***************************************************************************)
\* C29 as stated: format_lines drops no order: every order gives at least one output
\* line, so there are at least as many lines as orders, whatever the quantity is
C29_NoOrderDropped ==
    JarvisRan =>
        /\ Len(result.lines) >= Len(json_in.orders)
        /\ \A i \in 1..Len(json_in.orders) :
               JarvisStart(i + 1) - JarvisStart(i) >= 1

(***************************************************************************)
(* PXSort: every line is accounted for                                     *)
(***************************************************************************)
Sort_nonblank == {i \in 1..Len(SortInputLines) : Strip(SortInputLines[i]) # ""}

\* the items of all buckets, bucket after bucket
SortAllItems ==
    Flatten([b \in 1..Len(result.buckets) |->
                [k \in 1..Len(result.buckets[b].items) |->
                    [size |-> result.buckets[b].size,
                     name |-> result.buckets[b].items[k].name,
                     number |-> result.buckets[b].items[k].number]]])

\* C30: every non-blank line is one item of one bucket or one entry of the ignored
\* list: the items over all buckets plus the ignored entries are as many as the
\* non-blank lines, every item stands in the buckets as often as lines give it (the
\* sort drops and doubles none), the ignored list is the other non-blank lines in
\* input order, and a blank line is in neither
C30_EveryLineOnce ==
    SortRan =>
        /\ Len(SortAllItems) + Len(result.ignored) = Cardinality(Sort_nonblank)
        /\ Len(SortAllItems) = Cardinality(Sort_valid)
        /\ \A it \in {SortAllItems[k] : k \in 1..Len(SortAllItems)}
                     \cup {Sort_fields(SortInputLines[i]) : i \in Sort_valid} :
               Cardinality({k \in 1..Len(SortAllItems) : SortAllItems[k] = it})
                   = Cardinality({i \in Sort_valid : Sort_fields(SortInputLines[i]) = it})
        /\ result.ignored
               = SelectSeq2(SortInputLines,
                            [i \in 1..Len(SortInputLines) |->
                                i \in Sort_nonblank /\ i \notin Sort_valid])
        /\ \A k \in 1..Len(result.ignored) : Strip(result.ignored[k]) # ""

C30_Witness ==
    /\ SortRan
    /\ txt_in = "ana,10,M\n\nzz"
    /\ Len(SortInputLines) = 3
    /\ Len(result.buckets) = 1
    /\ result.buckets[1].items = <<[name |-> "ANA", number |-> "10"]>>
    /\ result.ignored = <<"zz">>

====
